---------------------------- MODULE Spec2Model ----------------------------
(***************************************************************************)
(* Model of the asset codecs of bk_asset_tool (src/banjo_kazooie):         *)
(*   - LevelSetup::from_bytes / get_cubes_from_reader / to_bytes, in both  *)
(*     copies the repository holds (level_setup.rs and asset.rs);          *)
(*   - the pixel format converters of Texture;                             *)
(*   - Sprite::from_bytes / SpriteFrame::new / SpriteChunk::new.           *)
(* The level-setup parser is a step machine: one action per iteration of   *)
(* each of its loops.  A panic (index out of bounds, panic!, todo!) ends   *)
(* the run in pc = "panic" and returns no value.                           *)
(***************************************************************************)
EXTENDS Integers, Sequences, FiniteSets, TLC

\* ------------------------------------------------------------------ bounds
\* Largest record count written in a generated objects / props group.
MaxCount == 2
\* Largest end coordinate of a generated multi-voxel lattice.
MaxExtent == 2
\* Largest number of top-level sections in a generated free-order stream.
MaxSections == 3

\* --------------------------------------------------------- program constants
map_id_offset == 1820
DEBUG_MAP == "SM_SPIRAL_MOUNTAIN"
\* sizeof(NodeProp) and sizeof(OtherNode) in get_cubes_from_reader
cube_byte_size_3 == 20
cube_byte_size_8 == 12

\* ------------------------------------------------------------ byte helpers
Byte == 0..255

RECURSIVE Concat(_)
Concat(ss) ==
    IF ss = <<>> THEN <<>>
    ELSE IF Len(ss) = 1 THEN ss[1]
    ELSE LET m == Len(ss) \div 2
         IN  Concat(SubSeq(ss, 1, m)) \o Concat(SubSeq(ss, m + 1, Len(ss)))

Rep(n, s) == Concat([k \in 1..n |-> s])

\* bitwise operators on naturals
RECURSIVE BitAnd(_, _)
BitAnd(a, b) ==
    IF a = 0 \/ b = 0 THEN 0
    ELSE (a % 2) * (b % 2) + 2 * BitAnd(a \div 2, b \div 2)
RECURSIVE BitOr(_, _)
BitOr(a, b) ==
    IF a = 0 THEN b
    ELSE IF b = 0 THEN a
    ELSE (IF a % 2 = 1 \/ b % 2 = 1 THEN 1 ELSE 0) + 2 * BitOr(a \div 2, b \div 2)
Shr(a, k) == a \div (2 ^ k)
\* left shift in an unsigned integer of w bits
Shl(a, k, w) == (a * (2 ^ k)) % (2 ^ w)

\* u8 / u16 / i16 / i32 ::from_be_bytes of the bytes at 0-based offset o
U8At(b, o) == b[o + 1]
U16At(b, o) == b[o + 1] * 256 + b[o + 2]
U24At(b, o) == (b[o + 1] * 256 + b[o + 2]) * 256 + b[o + 3]
I16At(b, o) == IF U16At(b, o) >= 32768 THEN U16At(b, o) - 65536 ELSE U16At(b, o)
I32At(b, o) ==
    (IF b[o + 1] >= 128 THEN b[o + 1] - 256 ELSE b[o + 1]) * 16777216 + U24At(b, o + 1)
\* The model checker's integers are 32 bits wide and signed, so a u32 and the bit
\* pattern of an f32 are kept as their four base-256 digits, most significant
\* first: u32::from_be_bytes and f32::from_be_bytes of the bytes at offset o.
U32At(b, o) == <<b[o + 1], b[o + 2], b[o + 3], b[o + 4]>>
F32At(b, o) == <<b[o + 1], b[o + 2], b[o + 3], b[o + 4]>>
\* the f32 literal 0_f32
F32Zero == <<0, 0, 0, 0>>
\* (u >> k) for a u32 u and 1 <= k <= 31
U32Shr(u, k) ==
    IF k >= 8 THEN (((u[1] * 256 + u[2]) * 256 + u[3])) \div (2 ^ (k - 8))
    ELSE ((u[1] * 256 + u[2]) * 256 + u[3]) * (2 ^ (8 - k)) + u[4] \div (2 ^ k)
\* (u & mask) for a u32 u and a mask below 2^24
U32Low(u, mask) == BitAnd((u[2] * 256 + u[3]) * 256 + u[4], mask)
\* in_bytes[o .. o + n]
Slice(b, o, n) == SubSeq(b, o + 1, o + n)

\* big-endian encodings used to write the generated inputs
BE16(v) == LET u == v % 65536 IN <<u \div 256, u % 256>>
Digits32(u) == <<u \div 16777216, (u \div 65536) % 256, (u \div 256) % 256, u % 256>>
\* two's complement of an i32
BE32(v) ==
    IF v >= 0 THEN Digits32(v) ELSE [k \in 1..4 |-> 255 - Digits32(-v - 1)[k]]
Vec3(x, y, z) == BE32(x) \o BE32(y) \o BE32(z)

\* ------------------------------------------------ known objects, map table
\* get_known_script_objects (level_setup.rs 409-462): the (object_id, script_id) pairs.
get_known_script_objects ==
    { <<0, 6416>>, <<1, 6412>>, <<2, 6412>>, <<2, 6416>>, <<18, 6416>>, <<21, 6412>>,
      <<22, 6412>>, <<23, 6416>>, <<19, 6412>>, <<55, 6412>>, <<113, 6412>>, <<114, 6412>>,
      <<117, 6412>>, <<118, 6412>>, <<118, 3852>>, <<119, 6412>>, <<120, 6412>>, <<121, 6412>>,
      <<122, 6412>>, <<123, 6412>>, <<124, 6412>>, <<125, 6412>>, <<126, 6412>>, <<127, 6412>>,
      <<259, 6412>>, <<260, 6412>>, <<261, 6412>>, <<262, 6412>>, <<329, 6412>>, <<330, 6412>>,
      <<366, 6412>>, <<432, 6412>>, <<463, 6412>>, <<841, 49932>>, <<883, 140>>, <<883, 268>>,
      <<883, 396>>, <<883, 524>>, <<883, 652>>, <<883, 780>>, <<886, 6412>>, <<889, 780>>,
      <<889, 1036>>, <<889, 1804>>, <<889, 6412>>, <<953, 6412>>, <<954, 6412>>, <<957, 33292>>,
      <<958, 6412>>, <<963, 6412>> }

\* get_known_timed_objects (level_setup.rs 464-471): the (object_id, script_id) pairs.
get_known_timed_objects ==
    { <<44, 140>>, <<44, 6412>>, <<101, 140>>, <<101, 6412>> }

\* get_known_actor_objects (level_setup.rs 473-1017): the (object_id, script_id) pairs.
get_known_actor_objects ==
    { <<4, 6412>>, <<5, 6412>>, <<6, 6412>>, <<7, 6412>>, <<8, 6412>>, <<9, 6412>>,
      <<10, 6412>>, <<11, 6412>>, <<12, 6412>>, <<15, 6412>>, <<17, 6412>>, <<18, 6412>>,
      <<30, 6412>>, <<32, 6412>>, <<33, 6412>>, <<34, 6412>>, <<35, 6412>>, <<37, 6412>>,
      <<38, 5772>>, <<38, 6412>>, <<38, 7692>>, <<38, 10252>>, <<39, 6412>>, <<39, 7692>>,
      <<39, 10252>>, <<40, 5772>>, <<40, 6412>>, <<40, 7692>>, <<41, 6412>>, <<42, 6412>>,
      <<45, 3212>>, <<45, 6412>>, <<47, 6412>>, <<48, 6412>>, <<49, 6412>>, <<58, 6412>>,
      <<60, 6412>>, <<61, 6412>>, <<62, 6412>>, <<65, 6412>>, <<67, 6412>>, <<70, 6412>>,
      <<71, 5132>>, <<71, 6412>>, <<73, 6412>>, <<80, 6412>>, <<82, 6412>>, <<85, 6412>>,
      <<86, 6412>>, <<87, 6412>>, <<91, 6412>>, <<94, 6412>>, <<95, 6412>>, <<96, 6412>>,
      <<97, 6412>>, <<98, 6412>>, <<103, 140>>, <<103, 6412>>, <<105, 6412>>, <<112, 6412>>,
      <<129, 6412>>, <<130, 6412>>, <<131, 6412>>, <<132, 6412>>, <<133, 6412>>, <<136, 6412>>,
      <<140, 6412>>, <<188, 5900>>, <<188, 6412>>, <<197, 5900>>, <<198, 6412>>, <<199, 140>>,
      <<199, 6412>>, <<202, 6412>>, <<203, 6412>>, <<204, 6412>>, <<205, 6412>>, <<206, 6412>>,
      <<208, 6412>>, <<209, 6412>>, <<213, 6412>>, <<215, 6412>>, <<228, 6412>>, <<230, 6412>>,
      <<232, 6412>>, <<238, 6412>>, <<239, 6412>>, <<240, 6412>>, <<241, 6412>>, <<242, 6412>>,
      <<245, 140>>, <<245, 6412>>, <<246, 6412>>, <<247, 6412>>, <<249, 6412>>, <<250, 6412>>,
      <<251, 6412>>, <<252, 6412>>, <<253, 6412>>, <<254, 6412>>, <<255, 6412>>, <<256, 6412>>,
      <<257, 6412>>, <<258, 6412>>, <<265, 6412>>, <<266, 6412>>, <<268, 6412>>, <<269, 6412>>,
      <<270, 3852>>, <<272, 6412>>, <<273, 6412>>, <<276, 6412>>, <<277, 6412>>, <<278, 76>>,
      <<278, 43660>>, <<278, 43788>>, <<279, 6412>>, <<281, 6412>>, <<282, 6412>>, <<283, 6412>>,
      <<284, 6412>>, <<285, 6412>>, <<286, 76>>, <<505, 6412>>, <<288, 6412>>, <<289, 6412>>,
      <<291, 6412>>, <<292, 6412>>, <<292, 6540>>, <<297, 6412>>, <<299, 140>>, <<299, 268>>,
      <<299, 396>>, <<299, 524>>, <<299, 652>>, <<299, 780>>, <<299, 908>>, <<299, 1036>>,
      <<302, 6412>>, <<304, 6412>>, <<305, 6412>>, <<306, 6412>>, <<307, 6412>>, <<308, 6412>>,
      <<309, 6412>>, <<311, 6412>>, <<313, 6412>>, <<314, 6412>>, <<315, 6412>>, <<318, 6412>>,
      <<319, 6412>>, <<322, 6412>>, <<323, 6412>>, <<324, 6412>>, <<325, 6412>>, <<326, 6412>>,
      <<327, 140>>, <<327, 268>>, <<327, 396>>, <<327, 524>>, <<327, 652>>, <<333, 6412>>,
      <<334, 6412>>, <<336, 25612>>, <<337, 6412>>, <<338, 6412>>, <<339, 1292>>, <<339, 6412>>,
      <<351, 6412>>, <<352, 6412>>, <<353, 140>>, <<353, 268>>, <<353, 396>>, <<353, 524>>,
      <<353, 652>>, <<353, 780>>, <<353, 908>>, <<353, 1036>>, <<353, 1164>>, <<353, 1292>>,
      <<353, 1420>>, <<353, 1548>>, <<353, 1676>>, <<353, 1804>>, <<353, 1932>>, <<353, 2060>>,
      <<353, 2188>>, <<353, 2316>>, <<353, 2444>>, <<353, 2572>>, <<353, 2700>>, <<353, 2828>>,
      <<353, 2956>>, <<353, 3084>>, <<353, 3212>>, <<353, 3340>>, <<353, 3468>>, <<353, 3596>>,
      <<353, 3724>>, <<353, 3852>>, <<353, 3980>>, <<353, 4108>>, <<353, 4236>>, <<353, 4364>>,
      <<353, 4492>>, <<353, 4620>>, <<353, 4748>>, <<353, 4876>>, <<353, 5004>>, <<354, 140>>,
      <<354, 268>>, <<354, 396>>, <<354, 524>>, <<354, 652>>, <<354, 780>>, <<354, 908>>,
      <<354, 1036>>, <<354, 1164>>, <<354, 1292>>, <<354, 1420>>, <<354, 1548>>, <<354, 1676>>,
      <<354, 1804>>, <<354, 1932>>, <<354, 2060>>, <<354, 2188>>, <<354, 2316>>, <<354, 2444>>,
      <<354, 2572>>, <<354, 2700>>, <<354, 2828>>, <<354, 2956>>, <<354, 3084>>, <<354, 3212>>,
      <<354, 3340>>, <<354, 3468>>, <<354, 3596>>, <<354, 3724>>, <<354, 3852>>, <<354, 3980>>,
      <<354, 4108>>, <<354, 4236>>, <<354, 4364>>, <<354, 4492>>, <<354, 4620>>, <<354, 4748>>,
      <<354, 4876>>, <<354, 5004>>, <<355, 6412>>, <<359, 6412>>, <<360, 6412>>, <<361, 6412>>,
      <<362, 6412>>, <<363, 6412>>, <<364, 6412>>, <<365, 6412>>, <<367, 6412>>, <<385, 6412>>,
      <<386, 6412>>, <<389, 6412>>, <<395, 6412>>, <<399, 6412>>, <<401, 6412>>, <<402, 6412>>,
      <<404, 6412>>, <<414, 6412>>, <<419, 6412>>, <<420, 6412>>, <<447, 6412>>, <<448, 6412>>,
      <<449, 6412>>, <<450, 6412>>, <<451, 6412>>, <<452, 6412>>, <<454, 140>>, <<454, 6412>>,
      <<456, 6412>>, <<457, 6412>>, <<458, 6412>>, <<460, 6412>>, <<461, 6412>>, <<472, 6412>>,
      <<473, 6412>>, <<474, 6412>>, <<482, 6412>>, <<489, 6412>>, <<483, 6412>>, <<484, 6412>>,
      <<490, 6412>>, <<491, 6412>>, <<492, 6412>>, <<493, 6412>>, <<494, 6412>>, <<495, 6412>>,
      <<496, 6412>>, <<497, 6412>>, <<498, 6412>>, <<499, 6412>>, <<502, 3212>>, <<503, 6412>>,
      <<509, 6412>>, <<510, 6412>>, <<506, 140>>, <<506, 268>>, <<506, 396>>, <<506, 524>>,
      <<506, 652>>, <<507, 6412>>, <<508, 6412>>, <<515, 140>>, <<515, 268>>, <<515, 396>>,
      <<515, 524>>, <<515, 652>>, <<515, 780>>, <<515, 908>>, <<515, 1036>>, <<515, 1164>>,
      <<515, 1292>>, <<515, 1420>>, <<515, 1548>>, <<516, 6412>>, <<518, 6412>>, <<520, 6412>>,
      <<523, 6412>>, <<525, 140>>, <<525, 268>>, <<526, 6412>>, <<527, 6412>>, <<528, 6412>>,
      <<529, 6412>>, <<530, 6412>>, <<531, 6412>>, <<532, 6412>>, <<533, 6412>>, <<534, 6412>>,
      <<535, 6412>>, <<536, 6412>>, <<537, 6412>>, <<538, 6412>>, <<539, 6412>>, <<541, 6412>>,
      <<545, 6412>>, <<546, 6412>>, <<547, 6412>>, <<550, 6412>>, <<551, 6412>>, <<553, 140>>,
      <<553, 6412>>, <<555, 6412>>, <<556, 6412>>, <<560, 140>>, <<560, 268>>, <<561, 6412>>,
      <<564, 6412>>, <<565, 6412>>, <<566, 6412>>, <<567, 6412>>, <<569, 6412>>, <<571, 140>>,
      <<571, 268>>, <<571, 396>>, <<571, 524>>, <<571, 652>>, <<571, 780>>, <<571, 1164>>,
      <<571, 1292>>, <<572, 6412>>, <<573, 652>>, <<573, 1292>>, <<573, 1932>>, <<573, 2572>>,
      <<573, 3212>>, <<575, 6412>>, <<579, 6412>>, <<582, 6412>>, <<583, 6412>>, <<584, 6412>>,
      <<598, 6412>>, <<599, 6412>>, <<603, 6412>>, <<604, 6412>>, <<605, 6412>>, <<606, 140>>,
      <<606, 396>>, <<606, 652>>, <<606, 780>>, <<614, 6412>>, <<615, 6412>>, <<616, 6412>>,
      <<634, 6412>>, <<635, 6412>>, <<636, 6412>>, <<637, 6412>>, <<638, 6412>>, <<639, 6412>>,
      <<640, 6412>>, <<645, 6412>>, <<646, 6412>>, <<647, 6412>>, <<648, 6412>>, <<649, 6412>>,
      <<650, 140>>, <<650, 6412>>, <<658, 6412>>, <<662, 6412>>, <<663, 6412>>, <<665, 6412>>,
      <<668, 6412>>, <<669, 6412>>, <<671, 140>>, <<671, 6412>>, <<673, 6412>>, <<674, 6412>>,
      <<676, 6412>>, <<678, 6412>>, <<679, 6412>>, <<680, 6412>>, <<681, 6412>>, <<682, 6412>>,
      <<683, 6412>>, <<684, 6412>>, <<731, 908>>, <<734, 26252>>, <<738, 26252>>, <<739, 140>>,
      <<739, 268>>, <<739, 396>>, <<739, 524>>, <<739, 652>>, <<739, 780>>, <<739, 908>>,
      <<739, 1036>>, <<739, 1164>>, <<740, 140>>, <<740, 268>>, <<740, 396>>, <<740, 524>>,
      <<740, 652>>, <<740, 780>>, <<740, 908>>, <<740, 1036>>, <<740, 1164>>, <<741, 6412>>,
      <<743, 6412>>, <<744, 6412>>, <<745, 6412>>, <<746, 6412>>, <<756, 6412>>, <<757, 6412>>,
      <<781, 6412>>, <<783, 140>>, <<783, 6412>>, <<785, 6412>>, <<786, 6412>>, <<789, 6412>>,
      <<794, 6412>>, <<797, 6412>>, <<826, 6412>>, <<827, 6412>>, <<828, 6412>>, <<829, 6412>>,
      <<831, 6412>>, <<832, 2572>>, <<840, 140>>, <<840, 268>>, <<840, 396>>, <<840, 524>>,
      <<840, 652>>, <<840, 780>>, <<840, 908>>, <<840, 1036>>, <<840, 1164>>, <<840, 1292>>,
      <<845, 1932>>, <<845, 2572>>, <<845, 3212>>, <<846, 6412>>, <<847, 6412>>, <<848, 6412>>,
      <<852, 6412>>, <<853, 6412>>, <<854, 6412>>, <<855, 6412>>, <<865, 6412>>, <<866, 6412>>,
      <<867, 6412>>, <<868, 6412>>, <<871, 6412>>, <<869, 6412>>, <<870, 6412>>, <<872, 6412>>,
      <<873, 6412>>, <<874, 6412>>, <<875, 6412>>, <<876, 6412>>, <<877, 6412>>, <<878, 6412>>,
      <<879, 6412>>, <<880, 6412>>, <<882, 6412>>, <<885, 6412>>, <<890, 1164>>, <<890, 1292>>,
      <<890, 1420>>, <<890, 1548>>, <<890, 1676>>, <<890, 1804>>, <<890, 1932>>, <<890, 2060>>,
      <<890, 2188>>, <<890, 2316>>, <<891, 6412>>, <<893, 268>>, <<893, 6412>>, <<894, 6412>>,
      <<895, 6412>>, <<896, 6412>>, <<897, 6412>>, <<897, 6668>>, <<897, 6796>>, <<897, 6924>>,
      <<899, 524>>, <<899, 6284>>, <<899, 6412>>, <<903, 6412>>, <<907, 6412>>, <<951, 140>>,
      <<951, 396>>, <<951, 524>>, <<951, 652>>, <<951, 780>>, <<951, 908>>, <<951, 1036>>,
      <<951, 1164>>, <<951, 1292>>, <<956, 268>>, <<959, 6412>>, <<960, 6412>>, <<961, 6412>>,
      <<962, 6412>> }

\* build_map_hash_set (level_setup.rs 1466-1600, asset.rs 1176-1310): map id -> name.
build_map_hash_set ==
    1 :> "SM_SPIRAL_MOUNTAIN" @@ 2 :> "MM_MUMBOS_MOUNTAIN" @@ 5 :> "TTC_BLUBBERS_SHIP"
    @@ 6 :> "TTC_NIPPERS_SHELL" @@ 7 :> "TTC_TREASURE_TROVE_COVE" @@ 10 :> "TTC_SANDCASTLE"
    @@ 11 :> "CC_CLANKERS_CAVERN" @@ 12 :> "MM_TICKERS_TOWER" @@ 13 :> "BGS_BUBBLEGLOOP_SWAMP"
    @@ 14 :> "MM_MUMBOS_SKULL" @@ 16 :> "BGS_MR_VILE" @@ 17 :> "BGS_TIPTUP"
    @@ 18 :> "GV_GOBIS_VALLEY" @@ 19 :> "GV_MEMORY_GAME" @@ 20 :> "GV_SANDYBUTTS_MAZE"
    @@ 21 :> "GV_WATER_PYRAMID" @@ 22 :> "GV_RUBEES_CHAMBER" @@ 26 :> "GV_INSIDE_JINXY"
    @@ 27 :> "MMM_MAD_MONSTER_MANSION" @@ 28 :> "MMM_CHURCH" @@ 29 :> "MMM_CELLAR"
    @@ 30 :> "CS_START_NINTENDO" @@ 31 :> "CS_START_RAREWARE" @@ 32 :> "CS_END_NOT_100"
    @@ 33 :> "CC_WITCH_SWITCH_ROOM" @@ 34 :> "CC_INSIDE_CLANKER" @@ 35 :> "CC_GOLDFEATHER_ROOM"
    @@ 36 :> "MMM_TUMBLARS_SHED" @@ 37 :> "MMM_WELL" @@ 38 :> "MMM_NAPPERS_ROOM"
    @@ 39 :> "FP_FREEZEEZY_PEAK" @@ 40 :> "MMM_EGG_ROOM" @@ 41 :> "MMM_NOTE_ROOM"
    @@ 42 :> "MMM_FEATHER_ROOM" @@ 43 :> "MMM_SECRET_CHURCH_ROOM" @@ 44 :> "MMM_BATHROOM"
    @@ 45 :> "MMM_BEDROOM" @@ 46 :> "MMM_HONEYCOMB_ROOM" @@ 47 :> "MMM_WATERDRAIN_BARREL"
    @@ 48 :> "MMM_MUMBOS_SKULL" @@ 49 :> "RBB_RUSTY_BUCKET_BAY" @@ 52 :> "RBB_ENGINE_ROOM"
    @@ 53 :> "RBB_WAREHOUSE" @@ 54 :> "RBB_BOATHOUSE" @@ 55 :> "RBB_CONTAINER_1"
    @@ 56 :> "RBB_CONTAINER_3" @@ 57 :> "RBB_CREW_CABIN" @@ 58 :> "RBB_BOSS_BOOM_BOX"
    @@ 59 :> "RBB_STORAGE_ROOM" @@ 60 :> "RBB_KITCHEN" @@ 61 :> "RBB_NAVIGATION_ROOM"
    @@ 62 :> "RBB_CONTAINER_2" @@ 63 :> "RBB_CAPTAINS_CABIN" @@ 64 :> "CCW_HUB"
    @@ 65 :> "FP_BOGGYS_IGLOO" @@ 67 :> "CCW_SPRING" @@ 68 :> "CCW_SUMMER"
    @@ 69 :> "CCW_AUTUMN" @@ 70 :> "CCW_WINTER" @@ 71 :> "BGS_MUMBOS_SKULL"
    @@ 72 :> "FP_MUMBOS_SKULL" @@ 74 :> "CCW_SPRING_MUMBOS_SKULL" @@ 75 :> "CCW_SUMMER_MUMBOS_SKULL"
    @@ 76 :> "CCW_AUTUMN_MUMBOS_SKULL" @@ 77 :> "CCW_WINTER_MUMBOS_SKULL" @@ 83 :> "FP_CHRISTMAS_TREE"
    @@ 90 :> "CCW_SUMMER_ZUBBA_HIVE" @@ 91 :> "CCW_SPRING_ZUBBA_HIVE" @@ 92 :> "CCW_AUTUMN_ZUBBA_HIVE"
    @@ 94 :> "CCW_SPRING_NABNUTS_HOUSE" @@ 95 :> "CCW_SUMMER_NABNUTS_HOUSE" @@ 96 :> "CCW_AUTUMN_NABNUTS_HOUSE"
    @@ 97 :> "CCW_WINTER_NABNUTS_HOUSE" @@ 98 :> "CCW_WINTER_HONEYCOMB_ROOM" @@ 99 :> "CCW_AUTUMN_NABNUTS_WATER_SUPPLY"
    @@ 100 :> "CCW_WINTER_NABNUTS_WATER_SUPPLY" @@ 101 :> "CCW_SPRING_WHIPCRACK_ROOM" @@ 102 :> "CCW_SUMMER_WHIPCRACK_ROOM"
    @@ 103 :> "CCW_AUTUMN_WHIPCRACK_ROOM" @@ 104 :> "CCW_WINTER_WHIPCRACK_ROOM" @@ 105 :> "GL_MM_LOBBY"
    @@ 106 :> "GL_TTC_AND_CC_PUZZLE" @@ 107 :> "GL_180_NOTE_DOOR" @@ 108 :> "GL_RED_CAULDRON_ROOM"
    @@ 109 :> "GL_TTC_LOBBY" @@ 110 :> "GL_GV_LOBBY" @@ 111 :> "GL_FP_LOBBY"
    @@ 112 :> "GL_CC_LOBBY" @@ 113 :> "GL_STATUE_ROOM" @@ 114 :> "GL_BGS_LOBBY"
    @@ 115 :> "UNKNOWN" @@ 116 :> "GL_GV_PUZZLE" @@ 117 :> "GL_MMM_LOBBY"
    @@ 118 :> "GL_640_NOTE_DOOR" @@ 119 :> "GL_RBB_LOBBY" @@ 120 :> "GL_RBB_AND_MMM_PUZZLE"
    @@ 121 :> "GL_CCW_LOBBY" @@ 122 :> "GL_CRYPT" @@ 123 :> "CS_INTRO_GL_DINGPOT_1"
    @@ 124 :> "CS_INTRO_BANJOS_HOUSE_1" @@ 125 :> "CS_SPIRAL_MOUNTAIN_1" @@ 126 :> "CS_SPIRAL_MOUNTAIN_2"
    @@ 127 :> "FP_WOZZAS_CAVE" @@ 128 :> "GL_FF_ENTRANCE" @@ 129 :> "CS_INTRO_GL_DINGPOT_2"
    @@ 130 :> "CS_ENTERING_GL_MACHINE_ROOM" @@ 131 :> "CS_GAME_OVER_MACHINE_ROOM" @@ 132 :> "CS_UNUSED_MACHINE_ROOM"
    @@ 133 :> "CS_SPIRAL_MOUNTAIN_3" @@ 134 :> "CS_SPIRAL_MOUNTAIN_4" @@ 135 :> "CS_SPIRAL_MOUNTAIN_5"
    @@ 136 :> "CS_SPIRAL_MOUNTAIN_6" @@ 137 :> "CS_INTRO_BANJOS_HOUSE_2" @@ 138 :> "CS_INTRO_BANJOS_HOUSE_3"
    @@ 139 :> "RBB_ANCHOR_ROOM" @@ 140 :> "SM_BANJOS_HOUSE" @@ 141 :> "MMM_INSIDE_LOGGO"
    @@ 142 :> "GL_FURNACE_FUN" @@ 143 :> "TTC_SHARKFOOD_ISLAND" @@ 144 :> "GL_BATTLEMENTS"
    @@ 145 :> "FILE_SELECT" @@ 146 :> "GV_SNS_CHAMBER" @@ 147 :> "GL_DINGPOT"
    @@ 148 :> "CS_INTRO_SPIRAL_7" @@ 149 :> "CS_END_ALL_100" @@ 150 :> "CS_END_BEACH_1"
    @@ 151 :> "CS_END_BEACH_2" @@ 152 :> "CS_END_SPIRAL_MOUNTAIN_1" @@ 153 :> "CS_END_SPIRAL_MOUNTAIN_"

\* ------------------------------------------------------- voxel record types
\* Option<T>: None is <<>>, Some(v) is <<v>>
None == <<>>
Some(v) == <<v>>

\* RadiusNode::from_bytes (bytes is the 1-based TLA+ sequence of the slice)
RadiusNode_from_bytes(bytes) ==
    [ kind          |-> "Radius",
      x             |-> I16At(bytes, 0),
      y             |-> I16At(bytes, 2),
      z             |-> I16At(bytes, 4),
      radius        |-> Shr(BitAnd(U16At(bytes, 6), 65408), 7),
      bit6          |-> Shr(BitAnd(U8At(bytes, 7), 127), 1),
      bit0          |-> BitAnd(U8At(bytes, 7), 1) = 1,
      associated_id |-> U16At(bytes, 8),
      unknown_1     |-> U8At(bytes, 10),
      unknown_2     |-> U8At(bytes, 11),
      unknown_3     |-> U8At(bytes, 12),
      unknown_4     |-> U8At(bytes, 13),
      unknown_5     |-> U8At(bytes, 14),
      unknown_6     |-> U8At(bytes, 15),
      current_nodes |-> U16At(bytes, 16),
      next_nodes    |-> U16At(bytes, 17) ]

\* LevelVoxelType::new, the 20-byte branch: Radius or Actor
LevelVoxelType_new_20(bytes) ==
    LET maybe_script_id == U16At(bytes, 6)
        maybe_object_id == U16At(bytes, 8)
        bit6            == Shr(BitAnd(U8At(bytes, 7), 127), 1)
        unk_10          == U32At(bytes, 15)
        unk_10_19       == BitAnd(U32Shr(unk_10, 8), 4095)
        unk_10_31       == U32Shr(unk_10, 20)
        known == \/ <<maybe_object_id, maybe_script_id>> \in get_known_actor_objects
                 \/ <<maybe_object_id, maybe_script_id>> \in get_known_timed_objects
                 \/ <<maybe_object_id, maybe_script_id>> \in get_known_script_objects
    IN  IF ~known /\ ((bit6 = 3 /\ maybe_object_id < 311) \/ bit6 = 4)
        THEN RadiusNode_from_bytes(bytes)
        ELSE [ kind          |-> "Actor",
               x             |-> I16At(bytes, 0),
               y             |-> I16At(bytes, 2),
               z             |-> I16At(bytes, 4),
               script_id     |-> maybe_script_id,
               object_id     |-> maybe_object_id,
               unknown_1     |-> U8At(bytes, 10),
               unknown_2     |-> U8At(bytes, 11),
               rotation      |-> U8At(bytes, 12),
               unknown_3     |-> U8At(bytes, 13),
               size          |-> U16At(bytes, 14),
               current_nodes |-> unk_10_19,
               next_nodes    |-> unk_10_31 ]

\* LevelVoxelType::new, the 12-byte branch: always a SpriteNode
LevelVoxelType_new_12(bytes) ==
    [ kind      |-> "Sprite",
      object_id |-> U16At(bytes, 0),
      size      |-> U16At(bytes, 2),
      x         |-> I16At(bytes, 4),
      y         |-> I16At(bytes, 6),
      z         |-> I16At(bytes, 8),
      unknown_1 |-> U8At(bytes, 10),
      unknown_2 |-> U8At(bytes, 11) ]

\* The value that stands for the panic of LevelVoxelType::new / LevelCubeBytes::new
CubePanic == [kind |-> "panic"]

\* LevelVoxelType::new (level_setup.rs)
LevelVoxelType_new(bytes) ==
    IF Len(bytes) = 20 THEN LevelVoxelType_new_20(bytes)
    ELSE IF Len(bytes) = 12 THEN LevelVoxelType_new_12(bytes)
    ELSE CubePanic

\* LevelCubeBytes::new (asset.rs)
LevelCubeBytes_new(bytes) ==
    IF Len(bytes) = 20 THEN
        LET unk_c == U32At(bytes, 12)
            unk_6 == U16At(bytes, 6)
        IN  [ kind     |-> "NodePropBytes",
              x        |-> I16At(bytes, 0),
              y        |-> I16At(bytes, 2),
              z        |-> I16At(bytes, 4),
              radius   |-> BitAnd(unk_6, 511),
              bit6     |-> BitAnd(Shr(unk_6, 9), 63),
              bit0     |-> Shr(unk_6, 15),
              actor_id |-> U16At(bytes, 8),
              unk_a    |-> U8At(bytes, 10),
              yaw      |-> U32Low(unk_c, 511),
              scale    |-> U32Shr(unk_c, 9),
              unk_10   |-> U32At(bytes, 16) ]
    ELSE IF Len(bytes) = 12 THEN
        [ kind   |-> "OtherNodeBytes",
          unk_4  |-> U32At(bytes, 0),
          unk_c  |-> U32At(bytes, 4),
          unk_10 |-> U32At(bytes, 8) ]
    ELSE CubePanic

\* slice::chunks(size): pieces of `size` elements, the last one possibly shorter
Chunks(s, size) ==
    [k \in 1..((Len(s) + size - 1) \div size) |->
        SubSeq(s, (k - 1) * size + 1, IF k * size < Len(s) THEN k * size ELSE Len(s))]

\* LevelCube { bytes: <record type>::new(cube) } in the copy named by module m
NewLevelCube(m, cube) ==
    IF m = "level_setup" THEN LevelVoxelType_new(cube) ELSE LevelCubeBytes_new(cube)

\* -------------------------------------------------------------------- state
VARIABLES
    unit,               \* what runs: "LevelSetup", "Sprite" (from_bytes) or "Texture" (to_rgba32)
    module,             \* which copy runs: "level_setup" (level_setup.rs) or "asset" (asset.rs)
    i,                  \* from_bytes' index argument
    in_bytes,           \* from_bytes' byte slice
    pc,                 \* "entry", "top", "voxel", "camera", "section", "lighting", "done", "panic"
    err,                \* the panic message once pc = "panic"
    offset,             \* LevelSetupReader.offset
    cmds,               \* the top-level command bytes dispatched so far
    cubes_from,         \* cubes_from of the command 1 arm
    cubes_to,           \* cubes_to of the command 1 arm
    pos,                \* <<_x, _y, _z>> of the lattice loops
    out_cubes,          \* out_cubes of the running get_cubes_from_reader call
    level_cubes,        \* level_cubes
    camera_nodes,       \* camera_nodes
    lighting_nodes,     \* lighting_nodes (level_setup.rs only)
    camera_node_index,  \* camera_node_index of the node being read
    camera_node_type,   \* camera_node_type of the node being read
    node_data_type,     \* node_data_type_1 .. node_data_type_4 of the node being read
    ret,                \* the returned LevelSetup or Sprite: None until from_bytes returns
    out_bytes,          \* Some(to_bytes()) once to_bytes has been called on ret
    out_type,           \* Some(get_type()) once get_type has been called on ret
    texture_type,       \* Texture::new's texture_type argument
    texture,            \* the Texture: None until Texture::new returns
    rgba32,             \* Some(to_rgba32()) once to_rgba32 has returned
    file,               \* the file at `path`: None until write(path) has created it
    read_ret,           \* the LevelSetup returned by LevelSetup::read(path), None before
    read_bytes          \* Some(to_bytes()) once to_bytes has been called on read_ret

inputVars == <<unit, module, i, in_bytes, texture_type>>
parserVars ==
    <<pc, err, offset, cmds, cubes_from, cubes_to, pos, out_cubes, level_cubes,
      camera_nodes, lighting_nodes, camera_node_index, camera_node_type,
      node_data_type, ret>>
callVars == <<out_bytes, out_type>>
textureVars == <<texture, rgba32>>
fileVars == <<file, read_ret, read_bytes>>
levelVars == <<inputVars, parserVars, callVars, textureVars, fileVars>>

\* The parser's state as one record, and its assignment to the next state
Cur ==
    [ pc |-> pc, err |-> err, offset |-> offset, cmds |-> cmds,
      cubes_from |-> cubes_from, cubes_to |-> cubes_to, pos |-> pos,
      out_cubes |-> out_cubes, level_cubes |-> level_cubes,
      camera_nodes |-> camera_nodes, lighting_nodes |-> lighting_nodes,
      camera_node_index |-> camera_node_index,
      camera_node_type |-> camera_node_type,
      node_data_type |-> node_data_type, ret |-> ret ]

Becomes(n) ==
    /\ pc' = n.pc
    /\ err' = n.err
    /\ offset' = n.offset
    /\ cmds' = n.cmds
    /\ cubes_from' = n.cubes_from
    /\ cubes_to' = n.cubes_to
    /\ pos' = n.pos
    /\ out_cubes' = n.out_cubes
    /\ level_cubes' = n.level_cubes
    /\ camera_nodes' = n.camera_nodes
    /\ lighting_nodes' = n.lighting_nodes
    /\ camera_node_index' = n.camera_node_index
    /\ camera_node_type' = n.camera_node_type
    /\ node_data_type' = n.node_data_type
    /\ ret' = n.ret

\* ------------------------------------------------------------------- reader
\* A read yields [ok, offset, val]: ok is FALSE when the slice index panics.
OutOfBounds == "index out of bounds"
PanicAt(s, msg) == [s EXCEPT !.pc = "panic", !.err = msg]
CanRead(o, n) == o + n <= Len(in_bytes)
Failed(o) == [ok |-> FALSE, offset |-> o, val |-> 0]

\* A read_u8 that returns the byte at the cursor and leaves the cursor there
read_u8_Peek(o) ==
    IF CanRead(o, 1) THEN [ok |-> TRUE, offset |-> o, val |-> U8At(in_bytes, o)]
    ELSE Failed(o)

read_u8(o) ==
    IF CanRead(o, 1) THEN [ok |-> TRUE, offset |-> o + 1, val |-> U8At(in_bytes, o)]
    ELSE Failed(o)
read_i16(o) ==
    IF CanRead(o, 2) THEN [ok |-> TRUE, offset |-> o + 2, val |-> I16At(in_bytes, o)]
    ELSE Failed(o)
read_i32(o) ==
    IF CanRead(o, 4) THEN [ok |-> TRUE, offset |-> o + 4, val |-> I32At(in_bytes, o)]
    ELSE Failed(o)
read_word(o) == read_i32(o)
read_f32(o) ==
    IF CanRead(o, 4) THEN [ok |-> TRUE, offset |-> o + 4, val |-> F32At(in_bytes, o)]
    ELSE Failed(o)
\* read_n(n, |r| r.read_u8()), which read_u8_n returns at once
read_u8_n(o, n) ==
    IF CanRead(o, n) THEN [ok |-> TRUE, offset |-> o + n, val |-> Slice(in_bytes, o, n)]
    ELSE Failed(o)
\* [r.read_i32(), r.read_i32(), r.read_i32()]
read_3_i32(o) ==
    IF CanRead(o, 12)
    THEN [ok |-> TRUE, offset |-> o + 12,
          val |-> <<I32At(in_bytes, o), I32At(in_bytes, o + 4), I32At(in_bytes, o + 8)>>]
    ELSE Failed(o)
\* [r.read_f32(); n] for n = 2, 3
read_n_f32(o, n) ==
    IF CanRead(o, 4 * n)
    THEN [ok |-> TRUE, offset |-> o + 4 * n,
          val |-> [k \in 1..n |-> F32At(in_bytes, o + 4 * (k - 1))]]
    ELSE Failed(o)
\* read_n(n, |r| r.read_word())
read_n_word(o, n) ==
    IF CanRead(o, 4 * n)
    THEN [ok |-> TRUE, offset |-> o + 4 * n,
          val |-> [k \in 1..n |-> I32At(in_bytes, o + 4 * (k - 1))]]
    ELSE Failed(o)
\* A read_if_expected that steps over the byte it peeks, expected or not
read_if_expected_Always(o, expected_value) ==
    IF ~CanRead(o, 1) THEN Failed(o)
    ELSE IF U8At(in_bytes, o) = expected_value
         THEN [ok |-> TRUE, offset |-> o + 1, val |-> TRUE]
         ELSE [ok |-> TRUE, offset |-> o + 1, val |-> FALSE]

\* read_if_expected(expected_value, reader_fn) up to the call of reader_fn:
\* val is TRUE (the byte was consumed, reader_fn runs at offset) or FALSE (None)
read_if_expected(o, expected_value) ==
    IF ~CanRead(o, 1) THEN Failed(o)
    ELSE IF U8At(in_bytes, o) = expected_value
         THEN [ok |-> TRUE, offset |-> o + 1, val |-> TRUE]
         ELSE [ok |-> TRUE, offset |-> o, val |-> FALSE]

\* ------------------------------------------------------ LevelSetup::from_bytes
\* A from_bytes that keeps only the bytes its reader has consumed
NewLevelSetup_Consumed(m, b, cubes, cams, lights) ==
    IF m = "level_setup"
    THEN [bytes |-> SubSeq(b, 1, offset), cubes |-> cubes, camera_nodes |-> cams,
          lighting_nodes |-> lights]
    ELSE [bytes |-> SubSeq(b, 1, offset), cubes |-> cubes, camera_nodes |-> cams]

\* The LevelSetup value a return statement of from_bytes builds in the copy m
\* (asset.rs's struct has no lighting_nodes field).
NewLevelSetup(m, b, cubes, cams, lights) ==
    IF m = "level_setup"
    THEN [bytes |-> b, cubes |-> cubes, camera_nodes |-> cams, lighting_nodes |-> lights]
    ELSE [bytes |-> b, cubes |-> cubes, camera_nodes |-> cams]

\* A short-circuit test that names the map after 113
ShortCircuit_114(m, map_idx) ==
    IF m = "level_setup"
    THEN map_idx = 114 \/ build_map_hash_set[map_idx] # DEBUG_MAP
    ELSE map_idx = 114

\* The short-circuit test at the head of from_bytes in the copy m
ShortCircuit(m, map_idx) ==
    IF m = "level_setup"
    THEN map_idx = 113 \/ build_map_hash_set[map_idx] # DEBUG_MAP
    ELSE map_idx = 113

\* from_bytes up to its top-level loop.  i - map_id_offset underflows for
\* i < 1820: a panic in a debug build, a wrapped value that is no key of the
\* map table (so again a panic) in a release build.
EntryStep(s) ==
    LET map_idx == i - map_id_offset
    IN  IF i < map_id_offset \/ map_idx \notin DOMAIN build_map_hash_set
        THEN PanicAt(s, "Expected map_idx to exist in maps")
        ELSE IF ShortCircuit(module, map_idx)
        THEN [s EXCEPT !.pc = "done",
                       !.ret = Some(NewLevelSetup(module, in_bytes, <<>>, <<>>, <<>>))]
        ELSE [s EXCEPT !.pc = "top"]

\* The lattice loops `for _x in from[0]..=to[0] { for _y .. { for _z ..` run
\* their body for no point at all when one of the three ranges is empty.
LatticeEmpty(from, to) == \E a \in 1..3 : from[a] > to[a]
\* The point after p, or <<>> when p is the last one
NextPos(from, to, p) ==
    IF p[3] < to[3] THEN <<p[1], p[2], p[3] + 1>>
    ELSE IF p[2] < to[2] THEN <<p[1], p[2] + 1, from[3]>>
    ELSE IF p[1] < to[1] THEN <<p[1] + 1, from[2], from[3]>>
    ELSE <<>>

\* reader.read_if_expected(0, |_| 0) after the lattice loops; back to the top loop
AfterVoxelList(s, o) ==
    LET g == read_if_expected(o, 0)
    IN  IF ~g.ok THEN PanicAt(s, OutOfBounds)
        ELSE [s EXCEPT !.pc = "top", !.offset = g.offset]

\* Command 1 up to the first get_cubes_from_reader call
VoxelListStart(s, o) ==
    LET should_read == read_u8(o)
        from == IF should_read.ok /\ should_read.val = 1
                THEN read_3_i32(should_read.offset)
                ELSE [ok |-> should_read.ok, offset |-> should_read.offset,
                      val |-> <<0, 0, 0>>]
        to   == IF from.ok THEN read_3_i32(from.offset) ELSE Failed(o)
    IN  IF ~to.ok THEN PanicAt(s, OutOfBounds)
        ELSE LET u == [s EXCEPT !.cubes_from = from.val, !.cubes_to = to.val,
                                !.offset = to.offset]
             IN  IF LatticeEmpty(from.val, to.val) THEN AfterVoxelList(u, to.offset)
                 ELSE [u EXCEPT !.pc = "voxel", !.pos = from.val, !.out_cubes = <<>>]

\* A top-level loop that steps over a command it does not know
TopStep_SkipUnknown(s) ==
    LET cmd == read_u8(s.offset)
        t   == [s EXCEPT !.cmds = Append(@, cmd.val)]
    IN  IF ~cmd.ok THEN PanicAt(s, OutOfBounds)
        ELSE IF cmd.val = 0
        THEN [t EXCEPT !.pc = "done", !.offset = cmd.offset,
                       !.ret = Some(NewLevelSetup(module, in_bytes, t.level_cubes,
                                                  t.camera_nodes, t.lighting_nodes))]
        ELSE IF cmd.val = 1 THEN VoxelListStart(t, cmd.offset)
        ELSE IF cmd.val = 3 THEN [t EXCEPT !.pc = "camera", !.offset = cmd.offset]
        ELSE IF cmd.val = 4 THEN [t EXCEPT !.pc = "lighting", !.offset = cmd.offset]
        ELSE [t EXCEPT !.offset = cmd.offset]

\* One iteration of from_bytes' top-level loop: read cmd and dispatch it
TopStep(s) ==
    LET cmd == read_u8(s.offset)
        t   == [s EXCEPT !.cmds = Append(@, cmd.val)]
    IN  IF ~cmd.ok THEN PanicAt(s, OutOfBounds)
        ELSE IF cmd.val = 0
        THEN [t EXCEPT !.pc = "done", !.offset = cmd.offset,
                       !.ret = Some(NewLevelSetup(module, in_bytes, t.level_cubes,
                                                  t.camera_nodes, t.lighting_nodes))]
        ELSE IF cmd.val = 1 THEN VoxelListStart(t, cmd.offset)
        ELSE IF cmd.val = 3 THEN [t EXCEPT !.pc = "camera", !.offset = cmd.offset]
        ELSE IF cmd.val = 4 THEN [t EXCEPT !.pc = "lighting", !.offset = cmd.offset]
        ELSE PanicAt(t, "not yet implemented: Implement cmd")

\* ------------------------------------------------------ get_cubes_from_reader
\* A lattice loop body that keeps every voxel, empty or not
EndVoxel_KeepAll(s) ==
    LET kept == Append(s.level_cubes,
                       [start_position |-> s.cubes_from,
                        end_position |-> s.cubes_to, cubes |-> s.out_cubes])
        nxt  == NextPos(s.cubes_from, s.cubes_to, s.pos)
        u    == [s EXCEPT !.level_cubes = kept, !.out_cubes = <<>>]
    IN  IF nxt = <<>> THEN AfterVoxelList(u, s.offset)
        ELSE [u EXCEPT !.pos = nxt]

\* `return out_cubes` and the rest of the lattice loop body: the voxel is kept
\* only if it holds a cube; then the next lattice point, or the end of command 1
EndVoxel(s) ==
    LET kept == IF s.out_cubes # <<>>
                THEN Append(s.level_cubes,
                            [start_position |-> s.cubes_from,
                             end_position |-> s.cubes_to, cubes |-> s.out_cubes])
                ELSE s.level_cubes
        nxt  == NextPos(s.cubes_from, s.cubes_to, s.pos)
        u    == [s EXCEPT !.level_cubes = kept, !.out_cubes = <<>>]
    IN  IF nxt = <<>> THEN AfterVoxelList(u, s.offset)
        ELSE [u EXCEPT !.pos = nxt]

\* cubes.chunks(cube_byte_size).for_each(|cube| out_cubes.push(LevelCube {..}))
PushCubes(s, o, cubes, size) ==
    LET made == [k \in 1..Len(Chunks(cubes, size)) |->
                    NewLevelCube(module, Chunks(cubes, size)[k])]
    IN  IF \E k \in 1..Len(made) : made[k] = CubePanic
        THEN PanicAt(s, "Can not create level cube bytes from given bytes")
        ELSE [s EXCEPT !.offset = o, !.out_cubes = @ \o made]

\* A tag 3 arm that takes a group of any kind
ObjectsGroup_AnyKind(s, o) ==
    LET cube_type == read_u8(o)
        count     == IF cube_type.ok THEN read_u8(cube_type.offset) ELSE Failed(o)
        gate      == read_if_expected(count.offset,
                                      IF cube_type.val = 10 THEN 11 ELSE 7)
        cubes     == read_u8_n(gate.offset, count.val * cube_byte_size_3)
    IN  IF ~count.ok THEN PanicAt(s, OutOfBounds)
        ELSE IF ~gate.ok THEN PanicAt(s, OutOfBounds)
        ELSE IF ~gate.val THEN [s EXCEPT !.offset = gate.offset]
        ELSE IF ~cubes.ok THEN PanicAt(s, OutOfBounds)
        ELSE PushCubes(s, cubes.offset, cubes.val, cube_byte_size_3)

\* A tag 3 arm that appends a none slot for a group of count 0
ObjectsGroup_NoneSlot(s, o) ==
    LET cube_type == read_u8(o)
        count     == IF cube_type.ok THEN read_u8(cube_type.offset) ELSE Failed(o)
        gate      == read_if_expected(count.offset,
                                      IF cube_type.val = 10 THEN 11 ELSE 7)
        cubes     == read_u8_n(gate.offset, count.val * cube_byte_size_3)
    IN  IF ~count.ok THEN PanicAt(s, OutOfBounds)
        ELSE IF cube_type.val \notin {10, 6}
        THEN PanicAt(s, "Unsupported cude type")
        ELSE IF count.val = 0
        THEN [s EXCEPT !.offset = count.offset, !.out_cubes = Append(@, None)]
        ELSE IF ~gate.ok THEN PanicAt(s, OutOfBounds)
        ELSE IF ~gate.val THEN [s EXCEPT !.offset = gate.offset]
        ELSE IF ~cubes.ok THEN PanicAt(s, OutOfBounds)
        ELSE PushCubes(s, cubes.offset, cubes.val, cube_byte_size_3)

\* A tag 3 arm whose records are 12 bytes long
ObjectsGroup_Twelve(s, o) ==
    LET cube_type == read_u8(o)
        count     == IF cube_type.ok THEN read_u8(cube_type.offset) ELSE Failed(o)
        gate      == read_if_expected(count.offset,
                                      IF cube_type.val = 10 THEN 11 ELSE 7)
        cubes     == read_u8_n(gate.offset, count.val * cube_byte_size_8)
    IN  IF ~count.ok THEN PanicAt(s, OutOfBounds)
        ELSE IF cube_type.val \notin {10, 6}
        THEN PanicAt(s, "Unsupported cude type")
        ELSE IF ~gate.ok THEN PanicAt(s, OutOfBounds)
        ELSE IF ~gate.val THEN [s EXCEPT !.offset = gate.offset]
        ELSE IF ~cubes.ok THEN PanicAt(s, OutOfBounds)
        ELSE PushCubes(s, cubes.offset, cubes.val, cube_byte_size_8)

\* Tag 3: cube_type, count, the (cube_type + 1) gate and count * 20 bytes
ObjectsGroup(s, o) ==
    LET cube_type == read_u8(o)
        count     == IF cube_type.ok THEN read_u8(cube_type.offset) ELSE Failed(o)
        gate      == read_if_expected(count.offset,
                                      IF cube_type.val = 10 THEN 11 ELSE 7)
        cubes     == read_u8_n(gate.offset, count.val * cube_byte_size_3)
    IN  IF ~count.ok THEN PanicAt(s, OutOfBounds)
        ELSE IF cube_type.val \notin {10, 6}
        THEN PanicAt(s, "Unsupported cude type")
        ELSE IF ~gate.ok THEN PanicAt(s, OutOfBounds)
        ELSE IF ~gate.val THEN [s EXCEPT !.offset = gate.offset]
        ELSE IF ~cubes.ok THEN PanicAt(s, OutOfBounds)
        ELSE PushCubes(s, cubes.offset, cubes.val, cube_byte_size_3)

\* A tag 8 arm whose records are 16 bytes long
PropsGroup_Sixteen(s, o) ==
    LET count == read_u8(o)
        gate  == read_if_expected(count.offset, 9)
        cubes == read_u8_n(gate.offset, count.val * 16)
    IN  IF ~count.ok THEN PanicAt(s, OutOfBounds)
        ELSE IF ~gate.ok THEN PanicAt(s, OutOfBounds)
        ELSE IF ~gate.val THEN [s EXCEPT !.offset = gate.offset]
        ELSE IF ~cubes.ok THEN PanicAt(s, OutOfBounds)
        ELSE PushCubes(s, cubes.offset, cubes.val, 16)

\* Tag 8: count, the gate 9 and count * 12 bytes
PropsGroup(s, o) ==
    LET count == read_u8(o)
        gate  == read_if_expected(count.offset, 9)
        cubes == read_u8_n(gate.offset, count.val * cube_byte_size_8)
    IN  IF ~count.ok THEN PanicAt(s, OutOfBounds)
        ELSE IF ~gate.ok THEN PanicAt(s, OutOfBounds)
        ELSE IF ~gate.val THEN [s EXCEPT !.offset = gate.offset]
        ELSE IF ~cubes.ok THEN PanicAt(s, OutOfBounds)
        ELSE PushCubes(s, cubes.offset, cubes.val, cube_byte_size_8)

\* A get_cubes_from_reader that has no arm for tag 0
VoxelStep_NoTag0(s) ==
    LET cmd == read_u8(s.offset)
    IN  IF ~cmd.ok THEN PanicAt(s, OutOfBounds)
        ELSE IF cmd.val = 1 THEN EndVoxel([s EXCEPT !.offset = cmd.offset])
        ELSE IF cmd.val = 2 THEN PanicAt(s, "not yet implemented: Cmd = 2")
        ELSE IF cmd.val = 3 THEN ObjectsGroup(s, cmd.offset)
        ELSE IF cmd.val = 8 THEN PropsGroup(s, cmd.offset)
        ELSE IF ~read_u8_n(cmd.offset, 50).ok THEN PanicAt(s, OutOfBounds)
        ELSE PanicAt(s, "not yet implemented: Unknown cmd")

\* One iteration of get_cubes_from_reader's loop: read cmd and dispatch it.
\* The arm of an unknown cmd reads 50 bytes for its message before it panics.
VoxelStep(s) ==
    LET cmd == read_u8(s.offset)
    IN  IF ~cmd.ok THEN PanicAt(s, OutOfBounds)
        ELSE IF cmd.val = 0
        THEN LET w == read_n_word(cmd.offset, 6)
             IN  IF ~w.ok THEN PanicAt(s, OutOfBounds)
                 ELSE [s EXCEPT !.offset = w.offset]
        ELSE IF cmd.val = 1 THEN EndVoxel([s EXCEPT !.offset = cmd.offset])
        ELSE IF cmd.val = 2 THEN PanicAt(s, "not yet implemented: Cmd = 2")
        ELSE IF cmd.val = 3 THEN ObjectsGroup(s, cmd.offset)
        ELSE IF cmd.val = 8 THEN PropsGroup(s, cmd.offset)
        ELSE IF ~read_u8_n(cmd.offset, 50).ok THEN PanicAt(s, OutOfBounds)
        ELSE PanicAt(s, "not yet implemented: Unknown cmd")

\* ------------------------------------------------------------- camera nodes
\* NodeData1 .. NodeData4 with every field None (field names of level_setup.rs;
\* asset.rs calls NodeData3.unknown unk_30 and NodeData4.unknown unk_0)
EmptyNodeData(type) ==
    IF type = 1 THEN
        [ variant |-> "NodeData1", position |-> None, horizontal_speed |-> None,
          vertical_speed |-> None, rotation |-> None, accelaration |-> None,
          pitch_yaw_and_roll |-> None, unknown |-> None ]
    ELSE IF type = 2 THEN
        [ variant |-> "NodeData2", position |-> None, rotation |-> None ]
    ELSE IF type = 3 THEN
        [ variant |-> "NodeData3", position |-> None, horizontal_speedd |-> None,
          vertical_speed |-> None, rotation |-> None, accelaration |-> None,
          close_distance |-> None, far_distance |-> None,
          pitch_yaw_roll |-> None, unknown |-> None ]
    ELSE [ variant |-> "NodeData4", unknown |-> None ]

\* One iteration of the camera list loop up to the `match camera_node_type`:
\* the list tag, the index, the 2-gated type.  Type 0 is the arm `0 => break`,
\* which leaves the camera list loop.
CameraStep(s) ==
    LET cmd   == read_u8(s.offset)
        index == read_i16(cmd.offset)
        gate  == read_if_expected(index.offset, 2)
        type  == IF gate.val THEN read_u8(gate.offset)
                 ELSE [ok |-> TRUE, offset |-> gate.offset, val |-> 0]
    IN  IF ~cmd.ok THEN PanicAt(s, OutOfBounds)
        ELSE IF cmd.val = 0 THEN [s EXCEPT !.pc = "top", !.offset = cmd.offset]
        ELSE IF cmd.val # 1 THEN PanicAt(s, "Unexpected cmd")
        ELSE IF ~index.ok \/ ~gate.ok \/ ~type.ok THEN PanicAt(s, OutOfBounds)
        ELSE IF type.val = 0 THEN [s EXCEPT !.pc = "top", !.offset = type.offset]
        ELSE IF type.val \in 1..4
        THEN [s EXCEPT !.pc = "section", !.offset = type.offset,
                       !.camera_node_index = index.val,
                       !.camera_node_type = type.val,
                       !.node_data_type = EmptyNodeData(type.val)]
        ELSE PanicAt(s, "Unknown camera_node_type")

\* Section arms in which tag 6 of type 3 carries three floats
SectionArm_Tag6Vector(type, tag, d, o) ==
    LET f3 == read_n_f32(o, 3)
        f2 == read_n_f32(o, 2)
        w  == read_word(o)
        Unknown == [known |-> FALSE, ok |-> TRUE, offset |-> o, data |-> d]
        R(r, nd) == [known |-> TRUE, ok |-> r.ok, offset |-> r.offset,
                     data |-> IF r.ok THEN nd ELSE d]
    IN  IF type = 1 THEN
            IF tag = 1 THEN R(f3, [d EXCEPT !.position = Some(f3.val)])
            ELSE IF tag = 2 THEN R(f2, [d EXCEPT !.horizontal_speed = Some(f2.val[1]),
                                                 !.vertical_speed = Some(f2.val[2])])
            ELSE IF tag = 3 THEN R(f2, [d EXCEPT !.rotation = Some(f2.val[1]),
                                                 !.accelaration = Some(f2.val[2])])
            ELSE IF tag = 4 THEN R(f3, [d EXCEPT !.pitch_yaw_and_roll = Some(f3.val)])
            ELSE IF tag = 5 THEN R(w, [d EXCEPT !.unknown = Some(w.val)])
            ELSE Unknown
        ELSE IF type = 2 THEN
            IF tag = 1 THEN R(f3, [d EXCEPT !.position = Some(f3.val)])
            ELSE IF tag = 2 THEN R(f3, [d EXCEPT !.rotation = Some(f3.val)])
            ELSE Unknown
        ELSE IF type = 3 THEN
            IF tag = 1 THEN R(f3, [d EXCEPT !.position = Some(f3.val)])
            ELSE IF tag = 2 THEN R(f2, [d EXCEPT !.horizontal_speedd = Some(f2.val[1]),
                                                 !.vertical_speed = Some(f2.val[2])])
            ELSE IF tag = 3 THEN R(f2, [d EXCEPT !.rotation = Some(f2.val[1]),
                                                 !.accelaration = Some(f2.val[2])])
            ELSE IF tag = 4 THEN R(f3, [d EXCEPT !.pitch_yaw_roll = Some(f3.val)])
            ELSE IF tag = 5 THEN R(w, [d EXCEPT !.unknown = Some(w.val)])
            ELSE IF tag = 6 THEN R(f3, [d EXCEPT !.close_distance = Some(f3.val[1]),
                                                 !.far_distance = Some(f3.val[2])])
            ELSE Unknown
        ELSE
            IF tag = 1 THEN R(w, [d EXCEPT !.unknown = Some(w.val)])
            ELSE Unknown

\* The section arms of cameraNodeType1 .. 4: what tag `tag` stores in node d
\* of type `type`, read at offset o; ok is FALSE for an out-of-bounds read,
\* known is FALSE for a tag the type has no arm for.
SectionArm(type, tag, d, o) ==
    LET f3 == read_n_f32(o, 3)
        f2 == read_n_f32(o, 2)
        w  == read_word(o)
        Unknown == [known |-> FALSE, ok |-> TRUE, offset |-> o, data |-> d]
        R(r, nd) == [known |-> TRUE, ok |-> r.ok, offset |-> r.offset,
                     data |-> IF r.ok THEN nd ELSE d]
    IN  IF type = 1 THEN
            IF tag = 1 THEN R(f3, [d EXCEPT !.position = Some(f3.val)])
            ELSE IF tag = 2 THEN R(f2, [d EXCEPT !.horizontal_speed = Some(f2.val[1]),
                                                 !.vertical_speed = Some(f2.val[2])])
            ELSE IF tag = 3 THEN R(f2, [d EXCEPT !.rotation = Some(f2.val[1]),
                                                 !.accelaration = Some(f2.val[2])])
            ELSE IF tag = 4 THEN R(f3, [d EXCEPT !.pitch_yaw_and_roll = Some(f3.val)])
            ELSE IF tag = 5 THEN R(w, [d EXCEPT !.unknown = Some(w.val)])
            ELSE Unknown
        ELSE IF type = 2 THEN
            IF tag = 1 THEN R(f3, [d EXCEPT !.position = Some(f3.val)])
            ELSE IF tag = 2 THEN R(f3, [d EXCEPT !.rotation = Some(f3.val)])
            ELSE Unknown
        ELSE IF type = 3 THEN
            IF tag = 1 THEN R(f3, [d EXCEPT !.position = Some(f3.val)])
            ELSE IF tag = 2 THEN R(f2, [d EXCEPT !.horizontal_speedd = Some(f2.val[1]),
                                                 !.vertical_speed = Some(f2.val[2])])
            ELSE IF tag = 3 THEN R(f2, [d EXCEPT !.rotation = Some(f2.val[1]),
                                                 !.accelaration = Some(f2.val[2])])
            ELSE IF tag = 4 THEN R(f3, [d EXCEPT !.pitch_yaw_roll = Some(f3.val)])
            ELSE IF tag = 5 THEN R(w, [d EXCEPT !.unknown = Some(w.val)])
            ELSE IF tag = 6 THEN R(f2, [d EXCEPT !.close_distance = Some(f2.val[1]),
                                                 !.far_distance = Some(f2.val[2])])
            ELSE Unknown
        ELSE
            IF tag = 1 THEN R(w, [d EXCEPT !.unknown = Some(w.val)])
            ELSE Unknown

\* A section loop in which every section starts from a node without fields
SectionStep_Fresh(s) ==
    LET tag == read_u8(s.offset)
        arm == SectionArm(s.camera_node_type, tag.val,
                          EmptyNodeData(s.camera_node_type), tag.offset)
    IN  IF ~tag.ok THEN PanicAt(s, OutOfBounds)
        ELSE IF tag.val = 0
        THEN [s EXCEPT !.pc = "camera", !.offset = tag.offset,
                       !.camera_nodes =
                           Append(@, [index |-> s.camera_node_index,
                                      node_type |-> s.camera_node_type,
                                      node_data |-> <<s.node_data_type>>])]
        ELSE IF ~arm.known
        THEN PanicAt(s, IF s.camera_node_type = 4 THEN "Unknown Cmd"
                        ELSE "Unknown section")
        ELSE IF ~arm.ok THEN PanicAt(s, OutOfBounds)
        ELSE [s EXCEPT !.offset = arm.offset, !.node_data_type = arm.data]

\* One iteration of the section loop of the node being read.  Tag 0 breaks
\* the loop: node_data.push(..) and camera_nodes.push(CameraNode {..}).
SectionStep(s) ==
    LET tag == read_u8(s.offset)
        arm == SectionArm(s.camera_node_type, tag.val, s.node_data_type, tag.offset)
    IN  IF ~tag.ok THEN PanicAt(s, OutOfBounds)
        ELSE IF tag.val = 0
        THEN [s EXCEPT !.pc = "camera", !.offset = tag.offset,
                       !.camera_nodes =
                           Append(@, [index |-> s.camera_node_index,
                                      node_type |-> s.camera_node_type,
                                      node_data |-> <<s.node_data_type>>])]
        ELSE IF ~arm.known
        THEN PanicAt(s, IF s.camera_node_type = 4 THEN "Unknown Cmd"
                        ELSE "Unknown section")
        ELSE IF ~arm.ok THEN PanicAt(s, OutOfBounds)
        ELSE [s EXCEPT !.offset = arm.offset, !.node_data_type = arm.data]

\* ----------------------------------------------------------- lighting nodes
\* A lighting entry whose three gates must all be there
LightingRead_Mandatory(o) ==
    LET g2       == read_if_expected(o, 2)
        position == read_n_f32(g2.offset, 3)
        g3       == read_if_expected(position.offset, 3)
        flags    == read_n_f32(g3.offset, 2)
        g4       == read_if_expected(flags.offset, 4)
        rgb      == read_u8_n(g4.offset, 12)
        Bad      == [ok |-> FALSE, hit |-> FALSE, offset |-> o, val |-> <<>>]
    IN  IF ~g2.ok \/ ~g2.val \/ ~position.ok \/ ~g3.ok \/ ~g3.val
           \/ ~flags.ok \/ ~g4.ok \/ ~g4.val \/ ~rgb.ok
        THEN Bad
        ELSE [ok |-> TRUE, hit |-> TRUE, offset |-> rgb.offset,
              val |-> [position |-> position.val, unknown_flags |-> flags.val,
                       rgb |-> <<rgb.val[4], rgb.val[8], rgb.val[12]>>]]

\* A lighting entry whose colour is the first byte of each of the three words
LightingRead_HighByte(o) ==
    LET g2       == read_if_expected(o, 2)
        position == read_n_f32(g2.offset, 3)
        g3       == read_if_expected(position.offset, 3)
        flags    == read_n_f32(g3.offset, 2)
        g4       == read_if_expected(flags.offset, 4)
        rgb      == read_u8_n(g4.offset, 12)
        Bad      == [ok |-> FALSE, hit |-> FALSE, offset |-> o, val |-> <<>>]
        Node(off, fl, c) ==
            [ok |-> TRUE, hit |-> TRUE, offset |-> off,
             val |-> [position |-> position.val, unknown_flags |-> fl, rgb |-> c]]
    IN  IF ~g2.ok THEN Bad
        ELSE IF ~g2.val THEN [ok |-> TRUE, hit |-> FALSE, offset |-> g2.offset, val |-> <<>>]
        ELSE IF ~position.ok \/ ~g3.ok THEN Bad
        ELSE IF ~g3.val THEN Node(g3.offset, <<F32Zero, F32Zero>>, <<0, 0, 0>>)
        ELSE IF ~flags.ok \/ ~g4.ok THEN Bad
        ELSE IF ~g4.val THEN Node(g4.offset, flags.val, <<0, 0, 0>>)
        ELSE IF ~rgb.ok THEN Bad
        ELSE Node(rgb.offset, flags.val, <<rgb.val[1], rgb.val[5], rgb.val[9]>>)

\* The nested read_if_expected(2, ..(3, ..(4, ..))) of one lighting entry read
\* at offset o: hit is FALSE when gate 2 is absent (read_data is None).
LightingRead(o) ==
    LET g2       == read_if_expected(o, 2)
        position == read_n_f32(g2.offset, 3)
        g3       == read_if_expected(position.offset, 3)
        flags    == read_n_f32(g3.offset, 2)
        g4       == read_if_expected(flags.offset, 4)
        rgb      == read_u8_n(g4.offset, 12)
        Bad      == [ok |-> FALSE, hit |-> FALSE, offset |-> o, val |-> <<>>]
        Node(off, fl, c) ==
            [ok |-> TRUE, hit |-> TRUE, offset |-> off,
             val |-> [position |-> position.val, unknown_flags |-> fl, rgb |-> c]]
    IN  IF ~g2.ok THEN Bad
        ELSE IF ~g2.val THEN [ok |-> TRUE, hit |-> FALSE, offset |-> g2.offset, val |-> <<>>]
        ELSE IF ~position.ok \/ ~g3.ok THEN Bad
        ELSE IF ~g3.val THEN Node(g3.offset, <<F32Zero, F32Zero>>, <<0, 0, 0>>)
        ELSE IF ~flags.ok \/ ~g4.ok THEN Bad
        ELSE IF ~g4.val THEN Node(g4.offset, flags.val, <<0, 0, 0>>)
        ELSE IF ~rgb.ok THEN Bad
        ELSE Node(rgb.offset, flags.val, <<rgb.val[4], rgb.val[8], rgb.val[12]>>)

\* One iteration of the lighting list loop.  asset.rs reads the same bytes
\* (the colours as three words) and keeps nothing.
LightingStep(s) ==
    LET cmd       == read_u8(s.offset)
        read_data == LightingRead(cmd.offset)
    IN  IF ~cmd.ok THEN PanicAt(s, OutOfBounds)
        ELSE IF cmd.val = 0 THEN [s EXCEPT !.pc = "top", !.offset = cmd.offset]
        ELSE IF cmd.val # 1 THEN PanicAt(s, "Unexpected cmd")
        ELSE IF ~read_data.ok THEN PanicAt(s, OutOfBounds)
        ELSE IF read_data.hit /\ module = "level_setup"
        THEN [s EXCEPT !.offset = read_data.offset,
                       !.lighting_nodes =
                           Append(@, [position  |-> Some(read_data.val.position),
                                      unknown_1 |-> Some(read_data.val.unknown_flags[1]),
                                      unknown_2 |-> Some(read_data.val.unknown_flags[2]),
                                      rgb       |-> Some(read_data.val.rgb)])]
        ELSE [s EXCEPT !.offset = read_data.offset]

\* ------------------------------------------------------------------ Texture
\* ImgFmt values are tuples: <<"CI4">>, .., <<"Unknown", code>>
CI4 == <<"CI4">>
CI8 == <<"CI8">>
I4 == <<"I4">>
I8 == <<"I8">>
RGBA16 == <<"RGBA16">>
RGBA32 == <<"RGBA32">>
IA4 == <<"IA4">>
IA8 == <<"IA8">>
UnknownFmt(code) == <<"Unknown", code>>

\* slice::chunks_exact(size): the complete pieces only
ChunksExact(s, size) == [k \in 1..(Len(s) \div size) |-> SubSeq(s, (k - 1) * size + 1, k * size)]

\* (c << 3) | (c >> 3) on the u8 c: the 5 to 8 bit expansion of a colour channel
Expand5(c) == BitOr(Shl(c, 3, 8), Shr(c, 3))
\* A logical shift of the u8 u by 7: the sign bit lands in bit 0 only
SignFill_Logical(u) == Shr(u, 7)

\* ((u as i8) >> 7) as u8: the sign bit of the u8 u in every bit
SignFill(u) == IF u >= 128 THEN 255 ELSE 0
\* The closure shared by rgba16_to_rgba32 and the palettes of ci4 / ci8:
\* one RGB5551 halfword to [r32, g32, b32, a32]
Rgba5551(val) ==
    LET r16 == BitAnd(Shr(val, 11), 31)
        g16 == BitAnd(Shr(val, 6), 31)
        b16 == BitAnd(Shr(val, 1), 31)
        a16 == BitAnd(val, 1)
    IN  <<Expand5(r16), Expand5(g16), Expand5(b16), SignFill(Shl(a16, 7, 8))>>

rgba16_to_rgba32(rgba16) ==
    Concat([k \in 1..(Len(rgba16) \div 2) |-> Rgba5551(U16At(ChunksExact(rgba16, 2)[k], 0))])

\* let pal: Vec<[u8; 4]> of ci4_to_rgba32 / ci8_to_rgba32
PaletteRgba(palatte) ==
    [k \in 1..(Len(palatte) \div 2) |-> Rgba5551(U16At(ChunksExact(palatte, 2)[k], 0))]

\* The indexed conversions yield [ok, val]: ok is FALSE when pal[indx] panics
Lookup(pal, idx) ==
    IF \E k \in 1..Len(idx) : idx[k] >= Len(pal) THEN [ok |-> FALSE, val |-> <<>>]
    ELSE [ok |-> TRUE, val |-> Concat([k \in 1..Len(idx) |-> pal[idx[k] + 1]])]

ci4_to_rgba32(ci4, palatte) ==
    Lookup(PaletteRgba(palatte),
           Concat([k \in 1..Len(ci4) |-> <<Shr(ci4[k], 4), BitAnd(ci4[k], 15)>>]))

ci8_to_rgba32(ci8, palatte) == Lookup(PaletteRgba(palatte), ci8)

i4_to_rgba32(i_4) ==
    Concat([k \in 1..Len(i_4) |->
        LET a    == i_4[k]
            val1 == BitOr(BitAnd(a, 240), Shr(a, 4))
            val2 == BitOr(Shl(a, 4, 8), BitAnd(a, 15))
        IN  <<val1, val1, val1, 255, val2, val2, val2, 255>>])

i8_to_rgba32(i_8) ==
    Concat([k \in 1..Len(i_8) |-> <<i_8[k], i_8[k], i_8[k], 255>>])

ia4_to_rgba32(ia4) ==
    Concat([k \in 1..Len(ia4) |->
        LET a  == ia4[k]
            i1 == BitOr(BitOr(BitAnd(a, 224), Shr(a, 3)), Shr(a, 6))
            a1 == SignFill(Shl(a, 3, 8))
            n2 == BitAnd(Shr(a, 1), 7)
            i2 == BitOr(BitOr(Shl(n2, 5, 8), Shl(n2, 2, 8)), Shr(n2, 1))
            a2 == SignFill(Shl(a, 7, 8))
        IN  <<i1, i1, i1, a1, i2, i2, i2, a2>>])

ia8_to_rgba32(ia8) ==
    Concat([k \in 1..Len(ia8) |->
        LET a     == ia8[k]
            val   == BitOr(BitAnd(a, 240), Shr(a, 4))
            alpha == BitOr(Shl(a, 4, 8), BitAnd(a, 15))
        IN  <<val, val, val, alpha>>])

\* Texture::new: [ok, val]; the palette is cut off the head of bin
Texture_new(texture_type_, w, h, bin) ==
    LET pal_len == IF texture_type_ = CI4 THEN 32 ELSE IF texture_type_ = CI8 THEN 512 ELSE 0
    IN  IF Len(bin) < pal_len THEN [ok |-> FALSE, val |-> <<>>]
        ELSE [ok |-> TRUE,
              val |-> [texture_type |-> texture_type_, w |-> w, h |-> h,
                       palette |-> IF pal_len = 0 THEN None ELSE Some(SubSeq(bin, 1, pal_len)),
                       pixel_data |-> SubSeq(bin, pal_len + 1, Len(bin))]]

\* Texture::to_rgba32: [ok, val]
to_rgba32(self) ==
    LET Ok(v) == [ok |-> TRUE, val |-> v]
        t == self.texture_type
    IN  IF t = CI4 THEN
            IF self.palette = None THEN [ok |-> FALSE, val |-> <<>>]
            ELSE ci4_to_rgba32(self.pixel_data, self.palette[1])
        ELSE IF t = CI8 THEN
            IF self.palette = None THEN [ok |-> FALSE, val |-> <<>>]
            ELSE ci8_to_rgba32(self.pixel_data, self.palette[1])
        ELSE IF t = RGBA16 THEN Ok(rgba16_to_rgba32(self.pixel_data))
        ELSE IF t = RGBA32 THEN Ok(self.pixel_data)
        ELSE IF t = I4 THEN Ok(i4_to_rgba32(self.pixel_data))
        ELSE IF t = I8 THEN Ok(i8_to_rgba32(self.pixel_data))
        ELSE IF t = IA4 THEN Ok(ia4_to_rgba32(self.pixel_data))
        ELSE IF t = IA8 THEN Ok(ia8_to_rgba32(self.pixel_data))
        ELSE [ok |-> FALSE, val |-> <<>>]

\* the message of the panic of to_rgba32
TexturePanic(self) ==
    IF self.texture_type \in {CI4, CI8}
    THEN IF self.palette = None THEN "Expected palette, but none found" ELSE OutOfBounds
    ELSE "Image type not implemented yet"

\* ------------------------------------------------------------------- Sprite
\* the message of slice::chunks_exact(0)
ZeroChunk == "chunk size must be non-zero"

\* (offset + (8 - 1)) & !(8 - 1)
Align8(o) == ((o + 7) \div 8) * 8

\* let pxl_size of SpriteChunk::new
pxl_size(format) ==
    IF format \in {I4, IA4, CI4} THEN 4
    ELSE IF format \in {I8, IA8, CI8} THEN 8
    ELSE IF format = RGBA16 THEN 16
    ELSE IF format = RGBA32 THEN 32
    ELSE 0

\* let data_size = w*h*pxl_size/8 of SpriteChunk::new. Inputs are shorter than
\* 2048 bytes, so a side of 4096 or more (with the other side non-zero) already
\* asks for more data than any input holds; the product is then not formed.
data_size(w, h, format) ==
    IF w = 0 \/ h = 0 THEN 0
    ELSE IF w >= 4096 \/ h >= 4096 THEN IF pxl_size(format) = 0 THEN 0 ELSE 2048
    ELSE (w * h * pxl_size(format)) \div 8

\* The tail of SpriteChunk::new, from let data on: o is the aligned offset and
\* n the data size
ChunkData(bin, o, n, x, y, w, h) ==
    IF o + n > Len(bin) THEN [ok |-> FALSE, offset |-> o, val |-> <<>>]
    ELSE [ok |-> TRUE, offset |-> o + n,
          val |-> [x |-> x, y |-> y, w |-> w, h |-> h, pixel_data |-> Slice(bin, o, n)]]

\* SpriteChunk::new: [ok, offset, val]; ok is FALSE when a slice index panics
SpriteChunk_new(bin, file_offset, format) ==
    IF file_offset + 8 > Len(bin) THEN [ok |-> FALSE, offset |-> file_offset, val |-> <<>>]
    ELSE ChunkData(bin, Align8(file_offset + 8),
                   data_size(U16At(bin, file_offset + 4), U16At(bin, file_offset + 6), format),
                   I16At(bin, file_offset), I16At(bin, file_offset + 2),
                   U16At(bin, file_offset + 4), U16At(bin, file_offset + 6))

\* The while i < chunk_cnt loop of SpriteFrame::new: [ok, chunks, chk_hdrs].
\* PushChunk is one pass of its body once SpriteChunk::new has returned c.
RECURSIVE ReadChunks(_, _, _, _)
RECURSIVE PushChunk(_, _, _, _, _)
PushChunk(bin, offset_, n, format, c) ==
    IF ~c.ok THEN [ok |-> FALSE, chunks |-> <<>>, chk_hdrs |-> <<>>]
    ELSE [ReadChunks(bin, c.offset, n - 1, format) EXCEPT
            !.chunks = <<c.val>> \o @,
            !.chk_hdrs = <<Slice(bin, offset_, 8)>> \o @]

ReadChunks(bin, offset_, n, format) ==
    IF n = 0 THEN [ok |-> TRUE, chunks |-> <<>>, chk_hdrs |-> <<>>]
    ELSE IF offset_ + 8 > Len(bin) THEN [ok |-> FALSE, chunks |-> <<>>, chk_hdrs |-> <<>>]
    ELSE PushChunk(bin, offset_, n, format, SpriteChunk_new(bin, offset_, format))

\* let raw_data of SpriteFrame::new: [ok, val]
raw_data(pixel_data, format, palette) ==
    IF format = CI4 THEN ci4_to_rgba32(pixel_data, palette)
    ELSE IF format = CI8 THEN ci8_to_rgba32(pixel_data, palette)
    ELSE [ok |-> TRUE,
          val |-> IF format = I4 THEN i4_to_rgba32(pixel_data)
                  ELSE IF format = I8 THEN i4_to_rgba32(pixel_data)
                  ELSE IF format = RGBA16 THEN rgba16_to_rgba32(pixel_data)
                  ELSE IF format = RGBA32 THEN pixel_data
                  ELSE IF format = IA4 THEN ia4_to_rgba32(pixel_data)
                  ELSE IF format = IA8 THEN ia4_to_rgba32(pixel_data)
                  ELSE <<>>]

\* The two for (j, row) loops of SpriteFrame::new, for one chunk: the canvas
\* maps <<fy, fx>> to a pixel; a chunk writes the pixel of its row j and column
\* i to (chnk.x + i, chnk.y + j), or to (i, j) when the frame has one chunk.
\* ox, oy are that origin and rows is row_data.len(); p[1] - oy and p[2] - ox
\* are the j and i of the pixel that lands on p, if there is one.
Blit(pxl_data, chnk, raw, ox, oy, rows) ==
    [p \in DOMAIN pxl_data |->
        IF 0 <= p[2] - ox /\ p[2] - ox < chnk.w /\ 0 <= p[1] - oy /\ p[1] - oy < rows
        THEN Slice(raw, 4 * ((p[1] - oy) * chnk.w + (p[2] - ox)), 4)
        ELSE pxl_data[p]]

\* for chnk in chunks: [ok, val, err]; chunks_exact panics on a chunk of width
\* 0. CompositeChunk is one pass of the body once raw_data is computed.
RECURSIVE Composite(_, _, _, _, _)
RECURSIVE CompositeChunk(_, _, _, _, _, _, _)
\* A compositing pass that paints every chunk at its declared origin
CompositeChunk_Declared(pxl_data, chnk, rest, raw, format, palette, chunk_cnt) ==
    IF ~raw.ok THEN [ok |-> FALSE, val |-> pxl_data, err |-> OutOfBounds]
    ELSE IF chnk.w = 0 THEN [ok |-> FALSE, val |-> pxl_data, err |-> ZeroChunk]
    ELSE Composite(Blit(pxl_data, chnk, raw.val, chnk.x, chnk.y,
                        Len(raw.val) \div (4 * chnk.w)),
                   rest, format, palette, chunk_cnt)

CompositeChunk(pxl_data, chnk, rest, raw, format, palette, chunk_cnt) ==
    IF ~raw.ok THEN [ok |-> FALSE, val |-> pxl_data, err |-> OutOfBounds]
    ELSE IF chnk.w = 0 THEN [ok |-> FALSE, val |-> pxl_data, err |-> ZeroChunk]
    ELSE Composite(Blit(pxl_data, chnk, raw.val,
                        IF chunk_cnt = 1 THEN 0 ELSE chnk.x,
                        IF chunk_cnt = 1 THEN 0 ELSE chnk.y,
                        Len(raw.val) \div (4 * chnk.w)),
                   rest, format, palette, chunk_cnt)

Composite(pxl_data, chunks, format, palette, chunk_cnt) ==
    IF chunks = <<>> THEN [ok |-> TRUE, val |-> pxl_data, err |-> ""]
    ELSE CompositeChunk(pxl_data, Head(chunks), Tail(chunks),
                        raw_data(Head(chunks).pixel_data, format, palette),
                        format, palette, chunk_cnt)

\* pxl_data.into_iter().flatten().flatten(): the rows top to bottom
Flatten(pxl_data, w, h) ==
    Concat([k \in 1..(w * h) |-> pxl_data[<<(k - 1) \div w, (k - 1) % w>>]])

\* vec![vec![[0; 4]; w]; h]
Canvas(w, h) == [p \in (0..(h - 1)) \X (0..(w - 1)) |-> <<0, 0, 0, 0>>]

\* The end of SpriteFrame::new, from let pal on: done is the outcome of the
\* compositing loop
FrameOf(header, w, h, format, palette, chk_hdrs, done) ==
    IF ~done.ok THEN [ok |-> FALSE, val |-> <<>>, err |-> done.err]
    ELSE [ok |-> TRUE, err |-> "",
          val |-> [w |-> w, h |-> h, header |-> header, chk_hdrs |-> chk_hdrs,
                   palette |-> IF format \in {CI4, CI8} THEN Some(palette) ELSE None,
                   pixel_data |-> Flatten(done.val, w, h)]]

\* SpriteFrame::new from for chnk in chunks on: read is the outcome of match format
FrameChunks(header, w, h, chunk_cnt, format, palette, read) ==
    IF ~read.ok THEN [ok |-> FALSE, val |-> <<>>, err |-> OutOfBounds]
    ELSE FrameOf(header, w, h, format, palette, read.chk_hdrs,
                 Composite(Canvas(w, h), read.chunks, format, palette, chunk_cnt))

\* SpriteFrame::new from match format on: pal_at is where the palette (of
\* pal_len bytes, 0 for the formats without one) starts
FramePalette(bin, file_offset, format, pal_at, pal_len) ==
    IF pal_at + pal_len > Len(bin) THEN [ok |-> FALSE, val |-> <<>>, err |-> OutOfBounds]
    ELSE FrameChunks(Slice(bin, file_offset, 20),
                     U16At(bin, file_offset + 4), U16At(bin, file_offset + 6),
                     U16At(bin, file_offset + 8), format, Slice(bin, pal_at, pal_len),
                     IF format \in {CI4, CI8, I4, I8, RGBA32, RGBA16}
                     THEN ReadChunks(bin, pal_at + pal_len, U16At(bin, file_offset + 8), format)
                     ELSE [ok |-> TRUE, chunks |-> <<>>, chk_hdrs |-> <<>>])

\* SpriteFrame::new: [ok, val, err]
SpriteFrame_new(bin, file_offset, format) ==
    IF file_offset + 20 > Len(bin) THEN [ok |-> FALSE, val |-> <<>>, err |-> OutOfBounds]
    ELSE FramePalette(bin, file_offset, format,
                      IF format \in {CI4, CI8} THEN Align8(file_offset + 20)
                      ELSE file_offset + 20,
                      IF format = CI4 THEN 32 ELSE IF format = CI8 THEN 512 ELSE 0)

\* let frmt of Sprite::from_bytes
ImgFmtOf(format) ==
    IF format = 1 THEN CI4
    ELSE IF format = 4 THEN CI8
    ELSE IF format = 32 THEN I4
    ELSE IF format = 64 THEN I8
    ELSE IF format = 1024 THEN RGBA16
    ELSE IF format = 2048 THEN RGBA32
    ELSE UnknownFmt(format)

\* 0x10 + offset as usize + 4*frame_cnt as usize; an offset of 2^24 or more
\* lies beyond every input, and is kept at 2^24 so that it stays an integer
FrameOffset(u, frame_cnt) ==
    IF u[1] # 0 THEN 16777216 ELSE 16 + U24At(<<u[2], u[3], u[4]>>, 0) + 4 * frame_cnt

\* in_bytes[0x10..].chunks_exact(0x4).take(frame_cnt)
FrameTable(all, frame_cnt) ==
    SubSeq(all, 1, IF frame_cnt < Len(all) THEN frame_cnt ELSE Len(all))

NewSprite(frmt, frame, b) == [format |-> frmt, frame |-> frame, bytes |-> b]

\* .collect() of the frames: fr holds the outcome of SpriteFrame::new for each
\* entry of the table, and the first that panics ends the call
Collect(frmt, fr, b) ==
    IF \E k \in 1..Len(fr) : ~fr[k].ok
    THEN [ok |-> FALSE, val |-> <<>>,
          err |-> fr[CHOOSE k \in 1..Len(fr) :
                        ~fr[k].ok /\ \A m \in 1..(k - 1) : fr[m].ok].err]
    ELSE [ok |-> TRUE, err |-> "", val |-> NewSprite(frmt, [k \in 1..Len(fr) |-> fr[k].val], b)]

\* The frames of Sprite::from_bytes in table order
Frames(in_bytes_, table, frame_cnt, frmt) ==
    Collect(frmt,
            [k \in 1..Len(table) |->
                SpriteFrame_new(in_bytes_, FrameOffset(U32At(table[k], 0), frame_cnt), frmt)],
            in_bytes_)

\* A special path that gives the frame of an indexed sprite a palette
SingleChunk_Indexed(frmt, in_bytes_, chunk) ==
    IF ~chunk.ok THEN [ok |-> FALSE, val |-> <<>>, err |-> OutOfBounds]
    ELSE [ok |-> TRUE, err |-> "",
          val |-> NewSprite(frmt,
                    <<[w |-> chunk.val.w, h |-> chunk.val.h, header |-> <<>>,
                       chk_hdrs |-> <<Slice(in_bytes_, 8, 8)>>,
                       palette |-> IF frmt \in {CI4, CI8} THEN Some(<<>>) ELSE None,
                       pixel_data |-> rgba16_to_rgba32(chunk.val.pixel_data)]>>,
                    in_bytes_)]

\* A special path that keeps the chunk's RGBA16 bytes as the frame's pixels
SingleChunk_Raw(frmt, in_bytes_, chunk) ==
    IF ~chunk.ok THEN [ok |-> FALSE, val |-> <<>>, err |-> OutOfBounds]
    ELSE [ok |-> TRUE, err |-> "",
          val |-> NewSprite(frmt,
                    <<[w |-> chunk.val.w, h |-> chunk.val.h, header |-> <<>>,
                       chk_hdrs |-> <<Slice(in_bytes_, 8, 8)>>, palette |-> None,
                       pixel_data |-> chunk.val.pixel_data]>>,
                    in_bytes_)]

\* The if frame_cnt > 0x100 arm of Sprite::from_bytes once SpriteChunk::new has
\* returned chunk
SingleChunk(frmt, in_bytes_, chunk) ==
    IF ~chunk.ok THEN [ok |-> FALSE, val |-> <<>>, err |-> OutOfBounds]
    ELSE [ok |-> TRUE, err |-> "",
          val |-> NewSprite(frmt,
                    <<[w |-> chunk.val.w, h |-> chunk.val.h, header |-> <<>>,
                       chk_hdrs |-> <<Slice(in_bytes_, 8, 8)>>, palette |-> None,
                       pixel_data |-> rgba16_to_rgba32(chunk.val.pixel_data)]>>,
                    in_bytes_)]

\* Sprite::from_bytes after its header: [ok, val, err]
SpriteBody(in_bytes_, frame_cnt, frmt) ==
    IF frmt[1] = "Unknown" THEN [ok |-> TRUE, err |-> "", val |-> NewSprite(frmt, <<>>, in_bytes_)]
    ELSE IF frame_cnt > 256 THEN SingleChunk(frmt, in_bytes_, SpriteChunk_new(in_bytes_, 8, RGBA16))
    ELSE IF Len(in_bytes_) < 16 THEN [ok |-> FALSE, val |-> <<>>, err |-> OutOfBounds]
    ELSE Frames(in_bytes_,
                FrameTable(ChunksExact(SubSeq(in_bytes_, 17, Len(in_bytes_)), 4), frame_cnt),
                frame_cnt, frmt)

\* Sprite::from_bytes: [ok, val, err]
Sprite_from_bytes(in_bytes_) ==
    IF Len(in_bytes_) < 4 THEN [ok |-> FALSE, val |-> <<>>, err |-> OutOfBounds]
    ELSE SpriteBody(in_bytes_, U16At(in_bytes_, 0), ImgFmtOf(U16At(in_bytes_, 2)))

\* ------------------------------------------------------------ impl Asset
\* impl Asset for LevelSetup
to_bytes(self) == self.bytes
get_type(self) == <<"LevelSetup">>
\* impl Asset for Sprite
\* A write that emits only the bytes the reader has consumed
write_Consumed(self) == SubSeq(self.bytes, 1, offset)
\* impl Asset for LevelSetup, write: the content of the file it creates
write(self) == self.bytes
\* LevelSetup::read in the copy m, given the content of the file at `path`
LevelSetup_read(m, content) == NewLevelSetup(m, content, <<>>, <<>>, <<>>)
Sprite_to_bytes(self) == self.bytes
Sprite_get_type(self) == <<"Sprite", self.format>>

\* ------------------------------------------------------------------- inputs
\* The byte streams from_bytes is run on, written with the layout of the format.
ObjRecord(k) == [j \in 1..20 |-> (16 * k + j) % 256]
PropRecord(k) == [j \in 1..12 |-> (32 * k + j) % 256]
\* a 20-byte record that decodes to a RadiusNode: bit6 = 4
RadiusRecord == <<0, 1, 0, 2, 0, 3, 0, 8, 0, 5, 1, 2, 3, 4, 5, 6, 0, 7, 0, 8>>
Records(n, R(_)) == Concat([k \in 1..n |-> R(k)])

EmptyBlock == <<1>>
ObjBlock(kind, n) == <<3, kind, n, kind + 1>> \o Records(n, ObjRecord) \o <<1>>
PropBlock(n) == <<8, n, 9>> \o Records(n, PropRecord) \o <<1>>
SkipPayload == [j \in 1..24 |-> j]

\* voxel blocks for a one-voxel lattice: every tag and gate case, and the
\* largest count a count byte can hold (255), with and without the gate
SingleBlocks ==
    {EmptyBlock}
    \cup {ObjBlock(10, n) : n \in 1..MaxCount}
    \cup {PropBlock(n) : n \in 1..MaxCount}
    \cup { ObjBlock(6, 1),
           <<3, 10, 1, 11>> \o Rep(20, <<170>>) \o <<1>>,
           <<3, 10, 1, 11>> \o RadiusRecord \o <<1>>,
           <<3, 10, 0, 1>>,
           <<3, 10, 0, 11, 1>>,
           <<3, 10, 2, 1>>,
           ObjBlock(10, 255), PropBlock(255),
           <<3, 10, 255, 1>>, <<8, 255, 1>>,
           <<8, 0, 1>>,
           <<8, 1, 1>>,
           <<3, 10, 1, 11>> \o ObjRecord(1) \o <<8, 1, 9>> \o PropRecord(1) \o <<1>>,
           <<8, 1, 9>> \o PropRecord(1) \o <<3, 6, 1, 7>> \o ObjRecord(2) \o <<1>>,
           <<0>> \o SkipPayload \o <<1>>,
           <<0>> \o SkipPayload \o ObjBlock(10, 1),
           <<0>> \o SubSeq(SkipPayload, 1, 20),
           <<2>>, <<2, 1>>, <<5>>, <<9, 1>>,
           <<3, 5, 1, 6>> \o ObjRecord(1) \o <<1>>,
           <<3, 10, 1, 11>> \o SubSeq(ObjRecord(1), 1, 19),
           <<3, 10>> }
\* voxel blocks for the lattices of several voxels
SmallBlocks == {EmptyBlock, ObjBlock(10, 1), PropBlock(1)}

VoxelSection(from, to, blocks, trail) ==
    <<1, 1>> \o Vec3(from[1], from[2], from[3]) \o Vec3(to[1], to[2], to[3])
        \o Concat(blocks) \o trail
Origin == <<0, 0, 0>>
AxisEnd(a, e) == [k \in 1..3 |-> IF k = a THEN e ELSE 0]

VoxelSections ==
    {VoxelSection(Origin, Origin, <<b>>, <<0>>) : b \in SingleBlocks}
    \cup UNION {{VoxelSection(Origin, AxisEnd(a, e), bs, <<0>>) :
                    a \in {1, 3}, bs \in [1..(e + 1) -> SmallBlocks]} :
                 e \in 1..MaxExtent}
    \cup { VoxelSection(Origin, Origin, <<EmptyBlock>>, <<>>),
           VoxelSection(<<-1, 0, 0>>, Origin, <<ObjBlock(10, 1), EmptyBlock>>, <<0>>),
           VoxelSection(Origin, <<1, 0, 1>>,
                        <<ObjBlock(10, 1), EmptyBlock, PropBlock(1), EmptyBlock>>, <<0>>),
           VoxelSection(<<1, 0, 0>>, Origin, <<>>, <<0>>),
           VoxelSection(Origin, <<1, -1, 1>>, <<>>, <<0>>),
           VoxelSection(Origin, <<0, 0, -1>>, <<>>, <<>>),
           <<1, 0>> \o Vec3(0, 0, 0) \o EmptyBlock \o <<0>>,
           <<1, 0>> \o Vec3(0, 1, 0) \o ObjBlock(10, 1) \o EmptyBlock \o <<0>>,
           <<1, 1>> \o Vec3(0, 0, 0) \o <<0, 0, 0, 0>> }

\* camera sections
SectionPayload(tag, len) == [j \in 1..len |-> (10 * tag + j) % 256]
Section(tag, len) == <<tag>> \o SectionPayload(tag, len)
CameraNodeBytes(index, type, sections) ==
    <<1>> \o BE16(index) \o <<2, type>> \o Concat(sections) \o <<0>>
\* (type, tag, payload length) of the section arms of the code
SectionTable ==
    { <<1, 1, 12>>, <<1, 2, 8>>, <<1, 3, 8>>, <<1, 4, 12>>, <<1, 5, 4>>,
      <<2, 1, 12>>, <<2, 2, 12>>,
      <<3, 1, 12>>, <<3, 2, 8>>, <<3, 3, 8>>, <<3, 4, 12>>, <<3, 5, 4>>, <<3, 6, 8>>,
      <<4, 1, 4>> }
\* Scenario C of the specification: index 5, type 3, tag 1 (1.0, 2.0, 3.0), tag 5 (42)
ScenarioC ==
    <<1, 0, 5, 2, 3, 1, 63, 128, 0, 0, 64, 0, 0, 0, 64, 64, 0, 0, 5, 0, 0, 0, 42, 0>>

CameraSections ==
    {<<3>> \o CameraNodeBytes(5, e[1], <<Section(e[2], e[3])>>) \o <<0>> : e \in SectionTable}
    \cup {<<3>> \o CameraNodeBytes(7, t, <<>>) \o <<0>> : t \in 1..4}
    \cup {<<3>> \o CameraNodeBytes(5, e[1], <<Section(e[2], 12)>>) \o <<0>> :
            e \in {<<1, 6>>, <<2, 3>>, <<3, 7>>, <<4, 2>>}}
    \cup { <<3, 0>>,
           <<3>> \o ScenarioC \o <<0>>,
           <<3, 1, 0, 5, 2, 0, 0>>,
           <<3, 1, 0, 5, 0>>,
           <<3, 1, 0, 5>> \o CameraNodeBytes(6, 4, <<Section(1, 4)>>) \o <<0>>,
           <<3>> \o CameraNodeBytes(5, 1, <<Section(5, 4)>>) \o <<1, 0, 6, 2, 0, 0>>,
           <<3>> \o CameraNodeBytes(-2, 2, <<Section(1, 12), Section(2, 12)>>)
                 \o CameraNodeBytes(9, 4, <<Section(1, 4)>>) \o <<0>>,
           <<3>> \o CameraNodeBytes(5, 1, <<Section(2, 8), <<2>> \o SectionPayload(9, 8),
                                             Section(1, 12)>>) \o <<0>>,
           <<3, 1, 0, 5, 2, 5, 0, 0>>,
           <<3, 2, 0>>,
           <<3, 1, 0>>,
           <<3>> \o CameraNodeBytes(5, 4, <<<<1, 0, 0>>>>) }

\* lighting sections
\* Scenario D of the specification: (1.0, 2.0, 3.0), (0.125, 0.25), FF 80 40
Gate2 == <<2, 63, 128, 0, 0, 64, 0, 0, 0, 64, 64, 0, 0>>
Gate3 == <<3, 62, 0, 0, 0, 62, 128, 0, 0>>
Gate4 == <<4, 0, 0, 0, 255, 0, 0, 0, 128, 0, 0, 0, 64>>
Gate4High == <<4, 1, 2, 3, 16, 4, 5, 6, 32, 7, 8, 9, 48>>
ScenarioD == <<1>> \o Gate2 \o Gate3 \o Gate4
LightingSections ==
    { <<4>> \o es \o <<0>> :
        es \in { <<>>, ScenarioD, ScenarioD \o <<1>> \o Gate2 \o Gate3 \o Gate4High,
                 <<1>>, <<1>> \o ScenarioD, <<1>> \o Gate2, <<1>> \o Gate2 \o Gate3,
                 <<1>> \o Gate3 \o Gate4, <<1>> \o Gate2 \o Gate4,
                 <<1>> \o Gate2 \o ScenarioD, <<1>> \o Gate4, <<2>> } }
    \cup { <<4, 1>>, <<4, 1>> \o SubSeq(Gate2, 1, 9), <<4>> \o SubSeq(ScenarioD, 1, 30) }

\* Scenario A of the specification, as printed (22 zero bytes, 31 bytes in all)
\* and with the two vectors written in full (24 zero bytes, 33 bytes in all)
ScenarioA31 == <<1, 1>> \o Rep(22, <<0>>) \o <<1, 0, 3, 0, 4, 0, 0>>
ScenarioA33 == <<1, 1>> \o Rep(24, <<0>>) \o <<1, 0, 3, 0, 4, 0, 0>>

VoxelSection0 == VoxelSection(Origin, Origin, <<EmptyBlock>>, <<0>>)
VoxelSection1 == VoxelSection(Origin, Origin, <<ObjBlock(10, 1)>>, <<0>>)
CameraSection0 == <<3, 0>>
CameraSection1 == <<3>> \o ScenarioC \o <<0>>
LightingSection0 == <<4, 0>>
LightingSection1 == <<4>> \o ScenarioD \o <<0>>

\* streams in the order 1, 3, 4, 0 that vary one section at a time
StarInputs ==
    {v \o CameraSection1 \o LightingSection1 \o <<0>> : v \in VoxelSections}
    \cup {VoxelSection1 \o c \o LightingSection1 \o <<0>> : c \in CameraSections}
    \cup {VoxelSection1 \o CameraSection1 \o l \o <<0>> : l \in LightingSections}
\* streams of up to MaxSections sections in any order, with and without the
\* final 0, with bytes after it, with an unknown command
FreeInputs ==
    {Concat(ss) \o tail :
        ss \in UNION {[1..n -> {VoxelSection1, CameraSection1, LightingSection1,
                                VoxelSection0}] : n \in 0..MaxSections},
        tail \in {<<0>>, <<>>, <<0, 9, 9>>, <<2, 0>>}}
Inputs ==
    StarInputs \cup FreeInputs
    \cup {ScenarioA31, ScenarioA33, VoxelSection(Origin, Origin, <<<<5>>>>, <<0>>)}

\* map ids 1 (the DEBUG_MAP), 2, 113, 3 (no key of the table), and i < 1820
Indexes ==
    {map_id_offset + 1, map_id_offset + 2, map_id_offset + 113,
     map_id_offset + 3, map_id_offset - 1}
Modules == {"level_setup", "asset"}

\* texture inputs: <<texture_type, bin>>
Pack5551(r, g, b, a) == r * 2048 + g * 64 + b * 2 + a
\* every value of one channel against the extremes of the two others
Halfwords ==
    {Pack5551(c, g, b, a) : c \in 0..31, g \in {0, 31}, b \in {0, 31}, a \in {0, 1}}
    \cup {Pack5551(r, c, b, a) : c \in 0..31, r \in {0, 31}, b \in {0, 31}, a \in {0, 1}}
    \cup {Pack5551(r, g, c, a) : c \in 0..31, r \in {0, 31}, g \in {0, 31}, a \in {0, 1}}
PaletteColours == {0, 1, 63489, 63488, 65535, 1985, 63, 33825}
\* a palette of n halfwords: v at 0-based index k, distinct colours elsewhere
PaletteWith(n, k, v) ==
    Concat([j \in 1..n |-> IF j = k + 1 THEN BE16(v) ELSE BE16((j * 2114 + 1) % 65536)])
TextureInputs ==
    {<<RGBA16, BE16(v)>> : v \in Halfwords}
    \cup {<<CI4, PaletteWith(16, k, v) \o <<k * 16 + (15 - k)>>>> :
            k \in {0, 5, 15}, v \in PaletteColours}
    \cup {<<CI8, PaletteWith(256, k, v) \o <<k>>>> : k \in {0, 200, 255}, v \in PaletteColours}
    \cup {<<f, <<a>>>> : f \in {I4, I8, IA4, IA8}, a \in Byte}
    \cup { <<RGBA16, <<248, 1, 0, 1, 7>>>>, <<RGBA16, <<>>>>,
           <<RGBA32, <<1, 2, 3, 4, 5, 6, 7, 8>>>>,
           <<CI4, <<1, 2, 3>>>>, <<CI8, PaletteWith(16, 0, 1)>>,
           <<CI4, PaletteWith(16, 0, 1)>>,
           <<UnknownFmt(2), <<1, 2>>>> }

TextureTypes == {t[1] : t \in TextureInputs}
TextureBins == {t[2] : t \in TextureInputs}

\* sprite inputs, written with the layout Sprite::from_bytes reads
Pad(n) == Rep(n, <<0>>)
PixelBytes(seed, n) == [j \in 1..n |-> (seed + 37 * j) % 256]
Unused(n) == [j \in 1..n |-> 160 + j]
\* code of the format field, bits per pixel and palette bytes of each format
FormatCodes == {1, 4, 32, 64, 1024, 2048}
BitsOf(code) == pxl_size(ImgFmtOf(code))
PaletteOf(code) ==
    IF code = 1 THEN PaletteWith(16, 0, 63489)
    ELSE IF code = 4 THEN PaletteWith(256, 0, 63489)
    ELSE <<>>
\* a chunk spec is <<x, y, w, h>>; its data are the bytes its format asks for
ChunkAt(start, code, c, seed) ==
    BE16(c[1]) \o BE16(c[2]) \o BE16(c[3]) \o BE16(c[4])
        \o Pad(Align8(start + 8) - (start + 8))
        \o PixelBytes(seed, (c[3] * c[4] * BitsOf(code)) \div 8)
RECURSIVE ChunksAt(_, _, _, _)
ChunksAt(start, code, cs, seed) ==
    IF cs = <<>> THEN <<>>
    ELSE LET first == ChunkAt(start, code, Head(cs), seed)
         IN  first \o ChunksAt(start + Len(first), code, Tail(cs), seed + 100)
\* a frame spec is <<w, h, chunk_cnt, chunks>>
FrameAt(start, code, f) ==
    LET head == BE16(3) \o BE16(4) \o BE16(f[1]) \o BE16(f[2]) \o BE16(f[3]) \o Unused(10)
        pal  == IF PaletteOf(code) = <<>> THEN <<>>
                ELSE Pad(Align8(start + 20) - (start + 20)) \o PaletteOf(code)
    IN  head \o pal \o ChunksAt(start + 20 + Len(pal), code, f[4], 11)
SpriteHeader(frame_cnt, code) == BE16(frame_cnt) \o BE16(code) \o Unused(12)
Sprite1(code, f) == SpriteHeader(1, code) \o BE32(0) \o FrameAt(20, code, f)
Sprite2(code, f, g) ==
    LET a == FrameAt(24, code, f)
    IN  SpriteHeader(2, code) \o BE32(0) \o BE32(Len(a)) \o a \o FrameAt(24 + Len(a), code, g)

\* largest side of a generated frame
MaxSide == 2
FrameSpecs ==
    {<<s, s, 1, <<<<x, x, s, s>>>>>> : s \in 1..MaxSide, x \in {0, 10}}
    \cup { <<2, 2, 0, <<>>>>,
           <<2, 2, 2, <<<<0, 0, 2, 1>>, <<0, 1, 2, 1>>>>>>,
           <<2, 2, 2, <<<<0, 0, 2, 2>>, <<1, 1, 2, 2>>>>>>,
           <<2, 2, 2, <<<<-1, 0, 2, 2>>, <<1, -1, 1, 2>>>>>>,
           <<2, 2, 2, <<<<0, 0, 2, 2>>, <<5, 5, 2, 2>>>>>>,
           <<2, 2, 1, <<<<0, 0, 4, 2>>>>>>,
           <<4, 2, 1, <<<<0, 0, 2, 2>>>>>>,
           <<2, 2, 1, <<<<0, 0, 0, 2>>>>>>,
           <<2, 2, 1, <<<<0, 0, 2, 0>>>>>>,
           <<2, 2, 2, <<<<0, 0, 2, 2>>>>>>,
           <<0, 0, 1, <<<<0, 0, 2, 2>>>>>> }
\* Scenario F of the specification: a 4x4 RGBA16 frame, one 4x4 chunk whose
\* origin field is (10, 10), every pixel F8 01
ScenarioF ==
    SpriteHeader(1, 1024) \o BE32(0)
        \o BE16(0) \o BE16(0) \o BE16(4) \o BE16(4) \o BE16(1) \o Pad(10)
        \o BE16(10) \o BE16(10) \o BE16(4) \o BE16(4) \o Rep(16, <<248, 1>>)
\* the same frame in RGBA32, every pixel FF 00 00 FF
ScenarioF32 ==
    SpriteHeader(1, 2048) \o BE32(0)
        \o BE16(0) \o BE16(0) \o BE16(4) \o BE16(4) \o BE16(1) \o Pad(10)
        \o BE16(10) \o BE16(10) \o BE16(4) \o BE16(4) \o Rep(16, <<255, 0, 0, 255>>)
SpriteInputs ==
    {Sprite1(code, f) : code \in FormatCodes, f \in FrameSpecs}
    \cup {Sprite2(code, <<2, 2, 1, <<<<0, 0, 2, 2>>>>>>, <<2, 1, 1, <<<<0, 0, 2, 1>>>>>>) :
            code \in FormatCodes}
    \cup {SubSeq(Sprite1(code, <<2, 2, 1, <<<<0, 0, 2, 2>>>>>>), 1, n) :
            code \in {1, 1024}, n \in {3, 4, 15, 16, 19, 20, 39, 40, 47, 48, 55}}
    \cup { ScenarioF, ScenarioF32,
           <<>>,
           SpriteHeader(1, 2) \o BE32(0),
           <<0, 0, 0, 2>>,
           SpriteHeader(0, 1024),
           SpriteHeader(1, 1024) \o <<1, 0, 0, 0>> \o FrameAt(20, 1024, <<1, 1, 0, <<>>>>),
           SpriteHeader(1, 1024) \o <<0, 0, 1, 0>> \o FrameAt(20, 1024, <<1, 1, 0, <<>>>>),
           SpriteHeader(3, 1024) \o BE32(0) \o FrameAt(20, 1024, <<1, 1, 0, <<>>>>),
           <<1, 1, 4, 0, 9, 9, 9, 9>> \o BE16(3) \o BE16(4) \o BE16(2) \o BE16(1)
               \o <<248, 1, 0, 1>>,
           <<1, 1, 0, 1, 9, 9, 9, 9>> \o BE16(3) \o BE16(4) \o BE16(2) \o BE16(1)
               \o <<248, 1, 0, 1, 7>>,
           <<1, 1, 4, 0, 9, 9, 9, 9>> \o BE16(3) \o BE16(4) \o BE16(2) \o BE16(1) \o <<248, 1>>,
           <<1, 1, 4, 0, 9, 9, 9, 9, 0, 0>> }

\* -------------------------------------------------------------------- Init
\* what a run is given: a level-setup stream and its index for either copy of
\* the parser, a sprite file, or a texture type and its data
Given ==
    \/ /\ unit = "LevelSetup"
       /\ module \in Modules
       /\ i \in Indexes
       /\ in_bytes \in Inputs
       /\ texture_type = RGBA32
    \/ /\ unit = "Sprite"
       /\ module = "asset"
       /\ i = 0
       /\ in_bytes \in SpriteInputs
       /\ texture_type = RGBA32
    \/ /\ unit = "Texture"
       /\ module = "asset"
       /\ i = 0
       /\ texture_type \in TextureTypes
       /\ in_bytes \in TextureBins
       /\ <<texture_type, in_bytes>> \in TextureInputs

Init ==
    /\ Given
    /\ texture = None
    /\ rgba32 = None
    /\ pc = "entry"
    /\ err = ""
    /\ offset = 0
    /\ cmds = <<>>
    /\ cubes_from = <<0, 0, 0>>
    /\ cubes_to = <<0, 0, 0>>
    /\ pos = <<>>
    /\ out_cubes = <<>>
    /\ level_cubes = <<>>
    /\ camera_nodes = <<>>
    /\ lighting_nodes = <<>>
    /\ camera_node_index = 0
    /\ camera_node_type = 0
    /\ node_data_type = <<>>
    /\ ret = None
    /\ out_bytes = None
    /\ out_type = None
    /\ file = None
    /\ read_ret = None
    /\ read_bytes = None

\* ----------------------------------------------------------------- actions
\* LevelSetup::from_bytes up to its loop (map lookup, short-circuit)
FromBytes ==
    /\ unit = "LevelSetup"
    /\ pc = "entry"
    /\ Becomes(EntryStep(Cur))
    /\ UNCHANGED <<inputVars, callVars, textureVars, fileVars>>

\* one iteration of the top-level loop
TopCmd ==
    /\ pc = "top"
    /\ Becomes(TopStep(Cur))
    /\ UNCHANGED <<inputVars, callVars, textureVars, fileVars>>

\* one iteration of the loop of get_cubes_from_reader
VoxelCmd ==
    /\ pc = "voxel"
    /\ Becomes(VoxelStep(Cur))
    /\ UNCHANGED <<inputVars, callVars, textureVars, fileVars>>

\* one iteration of the camera list loop, up to the node's sections
CameraNode ==
    /\ pc = "camera"
    /\ Becomes(CameraStep(Cur))
    /\ UNCHANGED <<inputVars, callVars, textureVars, fileVars>>

\* one iteration of the section loop of a camera node
CameraSection ==
    /\ pc = "section"
    /\ Becomes(SectionStep(Cur))
    /\ UNCHANGED <<inputVars, callVars, textureVars, fileVars>>

\* one iteration of the lighting list loop
LightingEntry ==
    /\ pc = "lighting"
    /\ Becomes(LightingStep(Cur))
    /\ UNCHANGED <<inputVars, callVars, textureVars, fileVars>>

\* Asset::to_bytes on the returned value
ToBytes ==
    /\ unit \in {"LevelSetup", "Sprite"}
    /\ pc = "done"
    /\ out_bytes = None
    /\ out_bytes' = Some(IF unit = "Sprite" THEN Sprite_to_bytes(ret[1]) ELSE to_bytes(ret[1]))
    /\ UNCHANGED <<inputVars, parserVars, out_type, textureVars, fileVars>>

\* Asset::get_type on the returned value
GetType ==
    /\ unit \in {"LevelSetup", "Sprite"}
    /\ pc = "done"
    /\ out_type = None
    /\ out_type' = Some(IF unit = "Sprite" THEN Sprite_get_type(ret[1]) ELSE get_type(ret[1]))
    /\ UNCHANGED <<inputVars, parserVars, out_bytes, textureVars, fileVars>>

\* Sprite::from_bytes
Returned(s, r) ==
    IF r.ok THEN [s EXCEPT !.pc = "done", !.ret = Some(r.val)]
    ELSE PanicAt(s, r.err)
SpriteStep(s) == Returned(s, Sprite_from_bytes(in_bytes))

SpriteFromBytes ==
    /\ unit = "Sprite"
    /\ pc = "entry"
    /\ Becomes(SpriteStep(Cur))
    /\ UNCHANGED <<inputVars, callVars, textureVars, fileVars>>

\* Texture::new
TextureNew ==
    /\ unit = "Texture"
    /\ pc = "entry"
    /\ LET t == Texture_new(texture_type, 1, 1, in_bytes)
       IN  /\ texture' = IF t.ok THEN Some(t.val) ELSE None
           /\ Becomes(IF t.ok THEN [Cur EXCEPT !.pc = "texture"] ELSE PanicAt(Cur, OutOfBounds))
    /\ UNCHANGED <<inputVars, callVars, rgba32, fileVars>>

\* Texture::to_rgba32
ToRgba32 ==
    /\ unit = "Texture"
    /\ pc = "texture"
    /\ LET r == to_rgba32(texture[1])
       IN  /\ rgba32' = IF r.ok THEN Some(r.val) ELSE None
           /\ Becomes(IF r.ok THEN [Cur EXCEPT !.pc = "done"] ELSE PanicAt(Cur, TexturePanic(texture[1])))
    /\ UNCHANGED <<inputVars, callVars, texture, fileVars>>

\* Asset::write(path) on the returned LevelSetup.  File::create, write_all
\* and fs::read are taken to succeed (their unwrap panics otherwise).
Write ==
    /\ unit = "LevelSetup"
    /\ pc = "done"
    /\ file = None
    /\ file' = Some(write(ret[1]))
    /\ UNCHANGED <<inputVars, parserVars, callVars, textureVars, read_ret, read_bytes>>

\* LevelSetup::read(path) of the file that write(path) created
Read ==
    /\ unit = "LevelSetup"
    /\ file # None
    /\ read_ret = None
    /\ read_ret' = Some(LevelSetup_read(module, file[1]))
    /\ UNCHANGED <<inputVars, parserVars, callVars, textureVars, file, read_bytes>>

\* Asset::to_bytes on the value LevelSetup::read returned
ReadToBytes ==
    /\ unit = "LevelSetup"
    /\ read_ret # None
    /\ read_bytes = None
    /\ read_bytes' = Some(to_bytes(read_ret[1]))
    /\ UNCHANGED <<inputVars, parserVars, callVars, textureVars, file, read_ret>>

Next ==
    \/ FromBytes
    \/ TopCmd
    \/ VoxelCmd
    \/ CameraNode
    \/ CameraSection
    \/ LightingEntry
    \/ ToBytes
    \/ GetType
    \/ Write
    \/ Read
    \/ ReadToBytes
    \/ SpriteFromBytes
    \/ TextureNew
    \/ ToRgba32

vars == levelVars
Spec == Init /\ [][Next]_vars

\* =================================================================== claims
\* a run of LevelSetup::from_bytes, and one that goes on to parse the stream
Level == unit = "LevelSetup"
Parsed ==
    /\ Level
    /\ i >= map_id_offset
    /\ i - map_id_offset \in DOMAIN build_map_hash_set
    /\ ~ShortCircuit(module, i - map_id_offset)
Ended == pc \in {"done", "panic"}

\* C1: whenever Sprite::from_bytes or LevelSetup::from_bytes has returned a
\* value, to_bytes of that value is the input, byte for byte.
C1_BinaryRoundTrip ==
    (unit \in {"LevelSetup", "Sprite"} /\ out_bytes # None) => out_bytes[1] = in_bytes
\* a parsed level with voxel records and camera nodes, re-encoded
C1_Witness ==
    /\ Parsed
    /\ out_bytes # None
    /\ level_cubes # <<>>
    /\ camera_nodes # <<>>
    /\ offset < Len(in_bytes)

Volume(from, to) ==
    (to[1] - from[1] + 1) * (to[2] - from[2] + 1) * (to[3] - from[3] + 1)
\* the stream held exactly one VoxelList section, over a non-empty lattice
OneVoxelList ==
    /\ Parsed
    /\ Cardinality({k \in 1..Len(cmds) : cmds[k] = 1}) = 1
    /\ ~LatticeEmpty(cubes_from, cubes_to)
\* the voxel block at the reader's offset ends here (tag 1)
VoxelEnds == Level /\ pc = "voxel" /\ CanRead(offset, 1) /\ U8At(in_bytes, offset) = 1

C4_AnyOrder ==
    /\ (Parsed /\ pc = "done") =>
            /\ Len(cmds) >= 1
            /\ cmds[Len(cmds)] = 0
            /\ \A k \in 1..(Len(cmds) - 1) : cmds[k] \in {1, 3, 4}
    /\ (Parsed /\ cmds # <<>> /\ cmds[Len(cmds)] \notin {0, 1, 3, 4}) =>
            pc = "panic" /\ err = "not yet implemented: Implement cmd"
    /\ (Parsed /\ pc = "panic" /\ err = "not yet implemented: Implement cmd") =>
            cmds[Len(cmds)] \notin {0, 1, 3, 4}
\* an accepted stream that repeats section 4, omits sections and starts with 4
C4_Witness ==
    /\ Parsed
    /\ pc = "done"
    /\ Len(cmds) = 4
    /\ cmds[1] = 4
    /\ cmds[2] = 4
\* C4 as stated: an accepted stream has the commands 1, 3, 4, 0
C4_FixedOrder == (Parsed /\ pc = "done") => cmds = <<1, 3, 4, 0>>

\* a camera node of type 0 starts at the reader's offset: tag 1, the index,
\* and either no gate 2 or gate 2 followed by the type byte 0
Type0Node ==
    /\ Level
    /\ pc = "camera"
    /\ CanRead(offset, 4)
    /\ U8At(in_bytes, offset) = 1
    /\ \/ U8At(in_bytes, offset + 3) # 2
       \/ CanRead(offset, 5) /\ U8At(in_bytes, offset + 4) = 0
\* C5: a camera node of type 0 is appended to the camera list with its index
\* and no section, and the camera list goes on with the next node.
C5_Type0Appended ==
    [][Type0Node =>
        /\ pc' = "camera"
        /\ camera_nodes' = Append(camera_nodes,
                                  [index |-> I16At(in_bytes, offset + 1),
                                   node_type |-> 0, node_data |-> <<>>])]_vars

\* a lighting entry (tag 1) starts at the reader's offset, and gate 2, gate 3
\* or gate 4 is the first of its gates that is absent
LightingEntryAt == Level /\ pc = "lighting" /\ CanRead(offset, 2) /\ U8At(in_bytes, offset) = 1
Gate2Absent == LightingEntryAt /\ U8At(in_bytes, offset + 1) # 2
Gate3Absent ==
    /\ LightingEntryAt
    /\ U8At(in_bytes, offset + 1) = 2
    /\ CanRead(offset, 15)
    /\ U8At(in_bytes, offset + 14) # 3
Gate4Absent ==
    /\ LightingEntryAt
    /\ U8At(in_bytes, offset + 1) = 2
    /\ CanRead(offset, 24)
    /\ U8At(in_bytes, offset + 14) = 3
    /\ U8At(in_bytes, offset + 23) # 4
\* the lighting node level_setup.rs appends (asset.rs keeps no lighting node)
Lit(position, unknown_1, unknown_2, rgb) ==
    IF module = "level_setup"
    THEN Append(lighting_nodes, [position |-> Some(position), unknown_1 |-> Some(unknown_1),
                                 unknown_2 |-> Some(unknown_2), rgb |-> Some(rgb)])
    ELSE lighting_nodes
\* C6: the gates of a lighting entry are optional and nested.  Without gate 2
\* the entry yields no node and only its tag is consumed; with gate 2 but
\* without gate 3 the node has its position, flags (0.0, 0.0) and rgb (0,0,0);
\* with gates 2 and 3 but without gate 4 it has its position, its flags and
\* rgb (0,0,0).  In none of these cases does from_bytes fail.
C6_OptionalGates ==
    [][/\ Gate2Absent =>
            /\ pc' = "lighting"
            /\ offset' = offset + 1
            /\ lighting_nodes' = lighting_nodes
       /\ Gate3Absent =>
            /\ pc' = "lighting"
            /\ offset' = offset + 14
            /\ lighting_nodes' =
                   Lit([k \in 1..3 |-> F32At(in_bytes, offset + 2 + 4 * (k - 1))],
                       F32Zero, F32Zero, <<0, 0, 0>>)
       /\ Gate4Absent =>
            /\ pc' = "lighting"
            /\ offset' = offset + 23
            /\ lighting_nodes' =
                   Lit([k \in 1..3 |-> F32At(in_bytes, offset + 2 + 4 * (k - 1))],
                       F32At(in_bytes, offset + 15), F32At(in_bytes, offset + 19),
                       <<0, 0, 0>>)]_vars
\* a returned level that holds a lighting node with defaulted flags and colour
C6_Witness ==
    /\ Parsed
    /\ module = "level_setup"
    /\ pc = "done"
    /\ \E k \in 1..Len(ret[1].lighting_nodes) :
          /\ ret[1].lighting_nodes[k].unknown_1 = Some(F32Zero)
          /\ ret[1].lighting_nodes[k].rgb = Some(<<0, 0, 0>>)
\* C6 as stated: an entry with a gate absent makes from_bytes fail
C6_Mandatory == [][(Gate2Absent \/ Gate3Absent \/ Gate4Absent) => pc' = "panic"]_vars

\* the 5-bit channel c (1 red, 2 green, 3 blue) of the RGB5551 halfword val
Channel5(val, c) == (val \div (2 ^ (16 - 5 * c))) % 32
\* Texture::to_rgba32 has returned for a one-pixel RGBA16 texture
OnePixel == unit = "Texture" /\ texture_type = RGBA16 /\ Len(in_bytes) = 2 /\ rgba32 # None
\* C7: the expansion of a 5-bit channel maps 0 to 0x00 and 31 to 0xFF, so
\* F8 01 decodes to FF 00 00 FF, 00 01 to 00 00 00 FF and 00 00 to 00 00 00 00.
C7_FixedPoints ==
    /\ OnePixel =>
          \A c \in 1..3 :
              /\ Channel5(U16At(in_bytes, 0), c) = 0 => rgba32[1][c] = 0
              /\ Channel5(U16At(in_bytes, 0), c) = 31 => rgba32[1][c] = 255
    /\ (OnePixel /\ in_bytes = <<248, 1>>) => rgba32[1] = <<255, 0, 0, 255>>
    /\ (OnePixel /\ in_bytes = <<0, 1>>) => rgba32[1] = <<0, 0, 0, 255>>
    /\ (OnePixel /\ in_bytes = <<0, 0>>) => rgba32[1] = <<0, 0, 0, 0>>

\* C8: in level_setup.rs every map id of the map table other than 113 has its
\* stream parsed: a run that returns has read at least the closing command.
C8_Only113 ==
    ( /\ Level
      /\ module = "level_setup"
      /\ pc = "done"
      /\ i >= map_id_offset
      /\ i - map_id_offset \in DOMAIN build_map_hash_set
      /\ i - map_id_offset # 113 ) => cmds # <<>>

\* C9: for map_idx = 113 from_bytes reads no byte and returns a value whose
\* bytes are the input and whose lists are empty; to_bytes of it is the input
\* and get_type of it is LevelSetup.
C9_Map113 ==
    (Level /\ i = map_id_offset + 113) =>
        /\ pc \in {"entry", "done"}
        /\ offset = 0
        /\ cmds = <<>>
        /\ pc = "done" =>
              /\ ret # None
              /\ ret[1].bytes = in_bytes
              /\ ret[1].cubes = <<>>
              /\ ret[1].camera_nodes = <<>>
              /\ (module = "level_setup" => ret[1].lighting_nodes = <<>>)
        /\ out_bytes # None => out_bytes[1] = in_bytes
        /\ out_type # None => out_type[1] = <<"LevelSetup">>
\* map 113 with a stream that holds all three sections, re-encoded and typed
C9_Witness ==
    /\ Level
    /\ i = map_id_offset + 113
    /\ out_bytes # None
    /\ out_type # None
    /\ Len(in_bytes) > 33

\* a voxel block reads tag t at the reader's offset
VoxelTag(t) == Level /\ pc = "voxel" /\ CanRead(offset, 1) /\ U8At(in_bytes, offset) = t
\* C10: inside a voxel block tag 0 is accepted: it consumes the tag and the
\* 24 bytes (six words) after it, stores nothing and the block goes on (the
\* parse fails only if fewer than 24 bytes follow).  Every tag other than 0,
\* 1, 3 and 8, tag 2 included, makes the parse fail.
C10_LegalTags ==
    [][/\ (Level /\ pc = "voxel" /\ CanRead(offset, 1)
             /\ U8At(in_bytes, offset) \notin {0, 1, 3, 8}) =>
            /\ pc' = "panic"
            /\ ret' = None
       /\ (VoxelTag(0) /\ CanRead(offset, 25)) =>
            /\ pc' = "voxel"
            /\ offset' = offset + 25
            /\ out_cubes' = out_cubes
            /\ level_cubes' = level_cubes
            /\ pos' = pos
       /\ (VoxelTag(0) /\ ~CanRead(offset, 25)) => pc' = "panic"]_vars
\* the first voxel block began with tag 0 and the reader is past its 24 bytes
C10_Witness ==
    /\ Parsed
    /\ pc = "voxel"
    /\ cmds = <<1>>
    /\ pos = cubes_from
    /\ out_cubes = <<>>
    /\ offset = 51
    /\ U8At(in_bytes, 26) = 0
\* C10 as stated: every tag other than 1, 3 and 8 makes the parse fail
C10_OnlyThreeTags ==
    [][(Level /\ pc = "voxel" /\ CanRead(offset, 1)
          /\ U8At(in_bytes, offset) \notin {1, 3, 8}) => pc' = "panic"]_vars

\* a props group (tag 8) with count n > 0 and its gate 9 starts at the reader's
\* offset, and at least `size` bytes per record follow the gate
PropsAt(n, size) ==
    /\ VoxelTag(8)
    /\ CanRead(offset, 3 + size * n)
    /\ U8At(in_bytes, offset + 1) = n
    /\ U8At(in_bytes, offset + 2) = 9
EmptyGroupAt ==
    /\ VoxelTag(3)
    /\ CanRead(offset, 4)
    /\ U8At(in_bytes, offset + 1) \in {6, 10}
    /\ U8At(in_bytes, offset + 2) = 0
\* the stream begins with a one-voxel lattice whose voxel holds one objects
\* group of count 0 and nothing else
EmptyGroupOnly ==
    /\ Parsed
    /\ \E b \in {<<3, 10, 0, 1>>, <<3, 10, 0, 11, 1>>} :
          /\ Len(in_bytes) >= 27 + Len(b)
          /\ SubSeq(in_bytes, 1, 27 + Len(b)) = VoxelSection(Origin, Origin, <<b>>, <<0>>)
ObjectsAt(n) ==
    /\ VoxelTag(3)
    /\ CanRead(offset, 4 + cube_byte_size_3 * n)
    /\ U8At(in_bytes, offset + 1) \in {6, 10}
    /\ U8At(in_bytes, offset + 2) = n
    /\ U8At(in_bytes, offset + 3) = U8At(in_bytes, offset + 1) + 1
\* Scenario B of the specification in a one-voxel lattice: 03 0A 01 0B, 20 x AA, 01
ScenarioB == <<3, 10, 1, 11>> \o Rep(20, <<170>>) \o <<1>>
ScenarioBParsed ==
    /\ Parsed
    /\ pc = "done"
    /\ Len(in_bytes) >= 52
    /\ SubSeq(in_bytes, 1, 52) = VoxelSection(Origin, Origin, <<ScenarioB>>, <<0>>)
\* C13: an objects group of kind K in {0x6, 0xA} with count N > 0 and gate
\* K + 1 consumes exactly N*20 payload bytes and appends N records, each
\* decoded from its 20 bytes, in stream order; a kind byte outside {0x6, 0xA}
\* makes the parse fail; Scenario B yields one voxel with exactly one object.
C13_ObjectsGroup ==
    /\ [](ScenarioBParsed =>
            /\ Len(ret[1].cubes) = 1
            /\ Len(ret[1].cubes[1].cubes) = 1
            /\ ret[1].cubes[1].cubes[1].kind \in {"Actor", "NodePropBytes"}
            /\ ret[1].cubes[1].cubes[1].x = I16At(<<170, 170>>, 0))
    /\ [][/\ \A n \in 1..(MaxCount + 1) :
               ObjectsAt(n) =>
                  /\ pc' = "voxel"
                  /\ offset' = offset + 4 + cube_byte_size_3 * n
                  /\ out_cubes' = out_cubes \o
                        [k \in 1..n |->
                           NewLevelCube(module,
                               Slice(in_bytes, offset + 4 + cube_byte_size_3 * (k - 1),
                                     cube_byte_size_3))]
          /\ (VoxelTag(3) /\ CanRead(offset, 2)
                /\ U8At(in_bytes, offset + 1) \notin {6, 10}) =>
                  /\ pc' = "panic"
                  /\ ret' = None]_vars
\* Scenario B parsed to the end
C13_Witness == ScenarioBParsed /\ out_bytes # None

\* the section loop of a camera node of type `type` reads tag `tag` at the
\* reader's offset, with `len` bytes at least after it
SectionAt(type, tag, len) ==
    /\ Level
    /\ pc = "section"
    /\ camera_node_type = type
    /\ CanRead(offset, 1 + len)
    /\ U8At(in_bytes, offset) = tag
\* the stream begins with the camera list of Scenario C and is parsed to the end
ScenarioCParsed ==
    /\ Parsed
    /\ pc = "done"
    /\ Len(in_bytes) >= Len(CameraSection1)
    /\ SubSeq(in_bytes, 1, Len(CameraSection1)) = CameraSection1
\* C14: for every (type, tag) of the payload table the section advances the
\* reader by the tag byte and exactly the payload length of the table and the
\* section list goes on; tag 0 ends the section list and the node is appended;
\* Scenario C yields a first node with index 5, type 3, position (1.0, 2.0,
\* 3.0) and word 42, every other field absent.
C14_SectionTable ==
    /\ [](ScenarioCParsed =>
            ret[1].camera_nodes[1] =
                [ index |-> 5, node_type |-> 3,
                  node_data |->
                     <<[EmptyNodeData(3) EXCEPT
                          !.position = Some(<<F32At(<<63, 128, 0, 0>>, 0),
                                              F32At(<<64, 0, 0, 0>>, 0),
                                              F32At(<<64, 64, 0, 0>>, 0)>>),
                          !.unknown = Some(42)]>> ])
    /\ [][/\ \A e \in SectionTable :
               SectionAt(e[1], e[2], e[3]) =>
                  /\ pc' = "section"
                  /\ offset' = offset + 1 + e[3]
                  /\ camera_nodes' = camera_nodes
          /\ \A t \in 1..4 :
               SectionAt(t, 0, 0) =>
                  /\ pc' = "camera"
                  /\ offset' = offset + 1
                  /\ camera_nodes' =
                        Append(camera_nodes,
                               [index |-> camera_node_index, node_type |-> t,
                                node_data |-> <<node_data_type>>])]_vars
\* Scenario C parsed to the end: its camera list holds the one node
C14_Witness == ScenarioCParsed /\ Len(ret[1].camera_nodes) = 1

\* the fields of NodeData<type> that the arm of tag `tag` assigns
TagFields(type, tag) ==
    IF type \in {1, 3} THEN
        IF tag = 1 THEN {"position"}
        ELSE IF tag = 2
        THEN {IF type = 1 THEN "horizontal_speed" ELSE "horizontal_speedd", "vertical_speed"}
        ELSE IF tag = 3 THEN {"rotation", "accelaration"}
        ELSE IF tag = 4 THEN {IF type = 1 THEN "pitch_yaw_and_roll" ELSE "pitch_yaw_roll"}
        ELSE IF tag = 5 THEN {"unknown"}
        ELSE {"close_distance", "far_distance"}
    ELSE IF type = 2 THEN (IF tag = 1 THEN {"position"} ELSE {"rotation"})
    ELSE {"unknown"}
\* the tags whose payload the node d of type `type` holds
StoredTags(d, type) ==
    {e[2] : e \in {x \in SectionTable :
                      /\ x[1] = type
                      /\ \A f \in TagFields(x[1], x[2]) : d[f] # None}}
FullEntryAt ==
    /\ LightingEntryAt
    /\ CanRead(offset, 36)
    /\ U8At(in_bytes, offset + 1) = 2
    /\ U8At(in_bytes, offset + 14) = 3
    /\ U8At(in_bytes, offset + 23) = 4
\* the stream begins with the lighting list of Scenario D and is parsed to the end
ScenarioDParsed ==
    /\ Parsed
    /\ module = "level_setup"
    /\ pc = "done"
    /\ Len(in_bytes) >= Len(LightingSection1)
    /\ SubSeq(in_bytes, 1, Len(LightingSection1)) = LightingSection1
\* C16: a lighting entry with all three gates consumes its 36 bytes; its
\* position is the three floats after gate 2, its flags the two floats after
\* gate 3, its rgb the fourth byte of each of the three words after gate 4,
\* whatever the other three bytes of each word.  Scenario D decodes to
\* position (1.0, 2.0, 3.0), flags (0.125, 0.25), rgb (0xFF, 0x80, 0x40).
C16_LightingDecode ==
    /\ [](ScenarioDParsed =>
            ret[1].lighting_nodes[1] =
                [ position  |-> Some(<<F32At(<<63, 128, 0, 0>>, 0),
                                       F32At(<<64, 0, 0, 0>>, 0),
                                       F32At(<<64, 64, 0, 0>>, 0)>>),
                  unknown_1 |-> Some(F32At(<<62, 0, 0, 0>>, 0)),
                  unknown_2 |-> Some(F32At(<<62, 128, 0, 0>>, 0)),
                  rgb       |-> Some(<<255, 128, 64>>) ])
    /\ [][FullEntryAt =>
            /\ pc' = "lighting"
            /\ offset' = offset + 36
            /\ lighting_nodes' =
                   Lit([k \in 1..3 |-> F32At(in_bytes, offset + 2 + 4 * (k - 1))],
                       F32At(in_bytes, offset + 15), F32At(in_bytes, offset + 19),
                       <<U8At(in_bytes, offset + 27), U8At(in_bytes, offset + 31),
                         U8At(in_bytes, offset + 35)>>)]_vars
\* a returned level whose second lighting node came from words with non-zero
\* high bytes (01 02 03 10, 04 05 06 20, 07 08 09 30)
C16_Witness ==
    /\ Parsed
    /\ module = "level_setup"
    /\ pc = "done"
    /\ Len(ret[1].lighting_nodes) = 2
    /\ ret[1].lighting_nodes[1].rgb = Some(<<255, 128, 64>>)
    /\ ret[1].lighting_nodes[2].rgb = Some(<<16, 32, 48>>)

\* the camera list reads a node (tag 1, index) at the reader's offset, so that
\* read_if_expected(2, |r| r.read_u8()) runs at offset + 3
TypeGateAt ==
    /\ Level
    /\ pc = "camera"
    /\ CanRead(offset, 5)
    /\ U8At(in_bytes, offset) = 1
\* the expected values from_bytes and get_cubes_from_reader pass
ExpectedValues == {0, 2, 3, 4, 7, 9, 11}
\* C17: read_if_expected(k, f) at a cursor with a byte to read: if that
\* byte is k the cursor is one byte further when f runs and the result is
\* Some(f(reader)); otherwise the result is None and the cursor is where it
\* was.  So for the type of a camera node, f = read_u8: with the byte 2 the
\* type is the byte after it and the cursor is past both; with another byte
\* the type is the default 0 and the cursor is left on that byte.
C17_ReadIfExpected ==
    /\ [](\A k \in ExpectedValues :
            (Level /\ CanRead(offset, 1)) =>
                /\ read_if_expected(offset, k).ok
                /\ U8At(in_bytes, offset) = k =>
                      /\ read_if_expected(offset, k).val
                      /\ read_if_expected(offset, k).offset = offset + 1
                /\ U8At(in_bytes, offset) # k =>
                      /\ ~read_if_expected(offset, k).val
                      /\ read_if_expected(offset, k).offset = offset)
    /\ [][/\ (TypeGateAt /\ U8At(in_bytes, offset + 3) = 2
                /\ U8At(in_bytes, offset + 4) \in 1..4) =>
                  /\ pc' = "section"
                  /\ camera_node_type' = U8At(in_bytes, offset + 4)
                  /\ offset' = offset + 5
          /\ (TypeGateAt /\ U8At(in_bytes, offset + 3) # 2) =>
                  /\ pc' = "top"
                  /\ offset' = offset + 3]_vars
\* a node's type has just been read behind its gate 2
C17_Witness ==
    /\ Level
    /\ pc = "section"
    /\ node_data_type = EmptyNodeData(camera_node_type)
    /\ U8At(in_bytes, offset - 2) = 2
    /\ U8At(in_bytes, offset - 1) = camera_node_type

\* C18: for every stream b that from_bytes accepts, write(path) followed by
\* LevelSetup::read(path) and to_bytes yields exactly b.
C18_FileRoundTrip == (Level /\ read_bytes # None) => read_bytes[1] = in_bytes
\* a parsed level with voxel records and camera nodes, written, read back and
\* re-encoded, whose stream has bytes after its closing command
C18_Witness ==
    /\ Parsed
    /\ read_bytes # None
    /\ ret[1].cubes # <<>>
    /\ ret[1].camera_nodes # <<>>
    /\ offset < Len(in_bytes)

\* C19: LevelSetup::read of the file that write emitted returns a value with
\* the voxel list, the camera node list and the lighting node list of the
\* value that was written.
C19_ReadInvertsWrite ==
    (Level /\ read_ret # None) =>
        /\ read_ret[1].cubes = ret[1].cubes
        /\ read_ret[1].camera_nodes = ret[1].camera_nodes
        /\ (module = "level_setup" =>
               read_ret[1].lighting_nodes = ret[1].lighting_nodes)

\* Sprite::from_bytes has returned a sprite of one frame (at offset 20) whose
\* chunk count is 1
OneChunkSprite ==
    /\ unit = "Sprite"
    /\ pc = "done"
    /\ Len(in_bytes) >= 40
    /\ U16At(in_bytes, 0) = 1
    /\ U32At(in_bytes, 16) = <<0, 0, 0, 0>>
    /\ U16At(in_bytes, 28) = 1
    /\ Len(ret[1].frame) = 1
    /\ Len(ret[1].frame[1].chk_hdrs) = 1
\* where the chunk of that frame starts: after the frame header and the palette
ChunkStart ==
    IF ret[1].format = CI4 THEN 72 ELSE IF ret[1].format = CI8 THEN 552 ELSE 40
\* the decoded pixels of that chunk, row after row
ChunkPixels ==
    raw_data(Slice(in_bytes, ChunkStart + 8,
                   data_size(U16At(in_bytes, ChunkStart + 4),
                             U16At(in_bytes, ChunkStart + 6), ret[1].format)),
             ret[1].format,
             IF ret[1].format \in {CI4, CI8}
             THEN Slice(in_bytes, 40, ChunkStart - 40) ELSE <<>>).val
\* canvas cell (x, y) of the frame f
Cell(f, x, y) == Slice(f.pixel_data, 4 * (y * f.w + x), 4)
\* C20: when the chunk count of a frame is 1, pixel (x, y) of the chunk is
\* canvas cell (x, y) whatever the chunk's declared origin, for every cell the
\* chunk covers; the other cells stay 00 00 00 00.  The 4x4 frame with one
\* 4x4 chunk of declared origin (10, 10) has in every cell the chunk's pixel:
\* FF 00 00 FF for RGBA32 pixels FF 00 00 FF.
C20_SingleChunkOrigin ==
    /\ OneChunkSprite =>
          LET f    == ret[1].frame[1]
              cw   == U16At(in_bytes, ChunkStart + 4)
              rows == Len(ChunkPixels) \div (4 * cw)
          IN  \A x \in 0..(f.w - 1), y \in 0..(f.h - 1) :
                 Cell(f, x, y) = IF x < cw /\ y < rows
                                 THEN Slice(ChunkPixels, 4 * (y * cw + x), 4)
                                 ELSE <<0, 0, 0, 0>>
    /\ (unit = "Sprite" /\ in_bytes \in {ScenarioF, ScenarioF32}) => pc # "panic"
    /\ (unit = "Sprite" /\ in_bytes = ScenarioF32 /\ pc = "done") =>
          ret[1].frame[1].pixel_data = Rep(16, <<255, 0, 0, 255>>)
    /\ (unit = "Sprite" /\ in_bytes = ScenarioF /\ pc = "done") =>
          ret[1].frame[1].pixel_data = Rep(16, rgba16_to_rgba32(<<248, 1>>))
\* Scenario F in RGBA32 has been decoded: declared origin (10, 10), 4x4 canvas
C20_Witness ==
    /\ OneChunkSprite
    /\ in_bytes = ScenarioF32
    /\ I16At(ret[1].frame[1].chk_hdrs[1], 0) = 10
    /\ ret[1].frame[1].w = 4

\* Sprite::from_bytes has returned a sprite of one frame (at offset 20) whose
\* chunk count is 2, both chunks read
TwoChunkSprite ==
    /\ unit = "Sprite"
    /\ pc = "done"
    /\ Len(in_bytes) >= 40
    /\ U16At(in_bytes, 0) = 1
    /\ U32At(in_bytes, 16) = <<0, 0, 0, 0>>
    /\ U16At(in_bytes, 28) = 2
    /\ Len(ret[1].frame) = 1
    /\ Len(ret[1].frame[1].chk_hdrs) = 2
\* where chunk k (1 or 2) of that frame starts, and its declared x, y, w, h
NthChunkStart(k) ==
    IF k = 1 THEN ChunkStart
    ELSE Align8(ChunkStart + 8)
            + data_size(U16At(in_bytes, ChunkStart + 4),
                        U16At(in_bytes, ChunkStart + 6), ret[1].format)
Declared(k) ==
    [ x |-> I16At(in_bytes, NthChunkStart(k)),
      y |-> I16At(in_bytes, NthChunkStart(k) + 2),
      w |-> U16At(in_bytes, NthChunkStart(k) + 4),
      h |-> U16At(in_bytes, NthChunkStart(k) + 6) ]
\* the decoded pixels of chunk k, row after row
NthChunkPixels(k) ==
    raw_data(Slice(in_bytes, Align8(NthChunkStart(k) + 8),
                   data_size(Declared(k).w, Declared(k).h, ret[1].format)),
             ret[1].format,
             IF ret[1].format \in {CI4, CI8}
             THEN Slice(in_bytes, 40, ChunkStart - 40) ELSE <<>>).val
\* chunk k covers canvas cell (x, y) with one of its w * h pixels
Covers(k, x, y) ==
    /\ Declared(k).x <= x
    /\ x < Declared(k).x + Declared(k).w
    /\ Declared(k).y <= y
    /\ y < Declared(k).y + Declared(k).h
\* C21: with a chunk count other than 1 a canvas cell holds pixel (i, j) of
\* the last chunk whose rectangle (chunk_x, chunk_y, w, h) covers it, and is
\* 00 00 00 00 when no chunk covers it; a pixel whose destination is outside
\* the canvas is dropped.
C21_Clipping ==
    TwoChunkSprite =>
        LET f == ret[1].frame[1]
        IN  /\ Len(f.pixel_data) = 4 * f.w * f.h
            /\ \A x \in 0..(f.w - 1), y \in 0..(f.h - 1) :
                  Cell(f, x, y) =
                     IF Covers(2, x, y)
                     THEN Slice(NthChunkPixels(2),
                                4 * ((y - Declared(2).y) * Declared(2).w
                                        + (x - Declared(2).x)), 4)
                     ELSE IF Covers(1, x, y)
                     THEN Slice(NthChunkPixels(1),
                                4 * ((y - Declared(1).y) * Declared(1).w
                                        + (x - Declared(1).x)), 4)
                     ELSE <<0, 0, 0, 0>>

\* a run of Sprite::from_bytes that has returned a sprite, and the path it took
SpriteReturned == unit = "Sprite" /\ pc = "done" /\ ret # None
SpecialPath == SpriteReturned /\ ret[1].format[1] # "Unknown" /\ U16At(in_bytes, 0) > 256
NormalPath == SpriteReturned /\ ret[1].format[1] # "Unknown" /\ U16At(in_bytes, 0) <= 256

\* C22: every frame of every sprite that Sprite::from_bytes returns, on the
\* normal path (frame count <= 0x100) and on the special path (frame count >
\* 0x100), has a pixel buffer of exactly 4 * w * h bytes.
C22_PixelBufferShape ==
    SpriteReturned =>
        \A k \in 1..Len(ret[1].frame) :
            Len(ret[1].frame[k].pixel_data) = 4 * ret[1].frame[k].w * ret[1].frame[k].h

\* a sprite of the special path whose one frame has pixels
C22_Witness ==
    /\ SpecialPath
    /\ Len(ret[1].frame) = 1
    /\ ret[1].frame[1].w * ret[1].frame[1].h > 0
    /\ Len(ret[1].frame[1].pixel_data) = 4 * ret[1].frame[1].w * ret[1].frame[1].h

\* the sprite's format is one of the two indexed formats
Indexed == ret[1].format \in {CI4, CI8}

\* C23: in every frame of a sprite returned on the normal path the palette is
\* present if and only if the sprite's format is CI4 or CI8; the one frame of
\* a sprite returned on the special path has no palette, whatever the format.
C23_PalettePresence ==
    /\ NormalPath =>
        \A k \in 1..Len(ret[1].frame) : (ret[1].frame[k].palette # None) <=> Indexed
    /\ SpecialPath =>
        \A k \in 1..Len(ret[1].frame) : ret[1].frame[k].palette = None

\* a CI4 sprite of the special path: its frame has no palette
C23_Witness ==
    /\ SpecialPath
    /\ ret[1].format = CI4
    /\ Len(ret[1].frame) = 1
    /\ ret[1].frame[1].palette = None

\* C23 as stated: in every frame of every returned sprite the palette is
\* present if and only if the format is CI4 or CI8
C23_IndexedIffPalette ==
    SpriteReturned =>
        \A k \in 1..Len(ret[1].frame) : (ret[1].frame[k].palette # None) <=> Indexed

\* a run of Texture::to_rgba32 that has returned its RGBA8 bytes
Converted == unit = "Texture" /\ pc = "done" /\ rgba32 # None
\* the one-bit alpha of each pixel of the texture's source, in pixel order:
\* bit 0 of a halfword (RGBA16), bit 0 of the palette halfword a pixel indexes
\* (CI4, CI8), bit 0 of a nibble (IA4)
PaletteBit(idx) == U16At(texture[1].palette[1], 2 * idx) % 2
SourceAlpha ==
    LET px == texture[1].pixel_data
        t  == texture[1].texture_type
    IN  IF t = RGBA16 THEN [k \in 1..(Len(px) \div 2) |-> px[2 * k] % 2]
        ELSE IF t = CI4
        THEN Concat([k \in 1..Len(px) |->
                        <<PaletteBit(px[k] \div 16), PaletteBit(px[k] % 16)>>])
        ELSE IF t = CI8 THEN [k \in 1..Len(px) |-> PaletteBit(px[k])]
        ELSE Concat([k \in 1..Len(px) |-> <<(px[k] \div 16) % 2, px[k] % 2>>])

\* C24: every alpha byte that rgba16_to_rgba32, ci4_to_rgba32, ci8_to_rgba32
\* and ia4_to_rgba32 produce is 0x00 when the source alpha bit of its pixel is
\* 0 and 0xFF when it is 1.
C24_OneBitAlpha ==
    (Converted /\ texture[1].texture_type \in {RGBA16, CI4, CI8, IA4}) =>
        /\ Len(rgba32[1]) = 4 * Len(SourceAlpha)
        /\ \A k \in 1..Len(SourceAlpha) :
                rgba32[1][4 * k] = IF SourceAlpha[k] = 1 THEN 255 ELSE 0

\* the IA4 byte 1E: alpha bit 1 in the high nibble, 0 in the low one
C24_Witness ==
    /\ Converted
    /\ texture[1].texture_type = IA4
    /\ texture[1].pixel_data = <<30>>
    /\ rgba32[1][4] = 255
    /\ rgba32[1][8] = 0

\* (i3 << 5) | (i3 << 2) | (i3 >> 1) for the 3-bit intensity i3
Replicate3(i3) == BitOr(BitOr(Shl(i3, 5, 8), Shl(i3, 2, 8)), Shr(i3, 1))
\* the RGB bytes of pixel n (from 1) of the converted texture
Rgb(n) == <<rgba32[1][4 * n - 3], rgba32[1][4 * n - 2], rgba32[1][4 * n - 1]>>
Grey(v) == <<v, v, v>>

\* C25: each nibble of every IA4 source byte decodes to a pixel whose
\* R = G = B is (i3 << 5) | (i3 << 2) | (i3 >> 1), i3 being the high 3 bits of
\* that nibble alone, whatever the nibble's alpha bit and the other nibble are.
C25_Ia4Intensity ==
    (Converted /\ texture[1].texture_type = IA4) =>
        \A k \in 1..Len(texture[1].pixel_data) :
            LET a == texture[1].pixel_data[k]
            IN  /\ Rgb(2 * k - 1) = Grey(Replicate3((a \div 16) \div 2))
                /\ Rgb(2 * k) = Grey(Replicate3((a % 16) \div 2))

\* the byte the parser is about to read, and the section tags of a node type
NextByte == U8At(in_bytes, offset)
TagsOf(type) == {e[2] : e \in {x \in SectionTable : x[1] = type}}
\* the node type byte of the camera entry at offset, behind its 2 gate
TypeByteAt == U8At(in_bytes, offset + 4)
\* from_bytes has panicked: it returns nothing
Aborted == pc = "panic" /\ ret = None

\* C26: an unexpected byte is fatal.  A top-level command outside {0, 1, 3, 4},
\* a camera-list or lighting-list tag outside {0, 1}, a camera node type
\* greater than 4 and a section tag outside the table of the node's type each
\* abort from_bytes on the spot, and an aborted call never returns a value.
C26_UnexpectedFatal ==
    [][/\ (Level /\ pc = "top" /\ CanRead(offset, 1) /\ NextByte \notin {0, 1, 3, 4})
            => Aborted'
       /\ (Level /\ pc \in {"camera", "lighting"} /\ CanRead(offset, 1)
                 /\ NextByte \notin {0, 1})
            => Aborted'
       /\ (Level /\ pc = "camera" /\ CanRead(offset, 5) /\ NextByte = 1
                 /\ U8At(in_bytes, offset + 3) = 2 /\ TypeByteAt > 4)
            => Aborted'
       /\ (Level /\ pc = "section" /\ CanRead(offset, 1)
                 /\ NextByte \notin {0} \cup TagsOf(camera_node_type))
            => Aborted'
       /\ (Level /\ pc = "panic") => (Aborted' /\ out_bytes' = None /\ file' = None)
      ]_vars

\* a section tag outside the table has aborted the call
C26_Witness ==
    /\ Level
    /\ Aborted
    /\ err = "Unknown section"
    /\ CanRead(offset, 1)
    /\ NextByte \notin {0} \cup TagsOf(camera_node_type)

\* C27: the frame of an I8 sprite (format code 0x0040) whose one chunk is as
\* large as the frame holds, in cell (x, y), the grey pixel of source byte
\* y * w + x of the chunk: R = G = B = that byte, alpha 0xFF.
C27_I8Decode ==
    (/\ OneChunkSprite
     /\ ret[1].format = I8
     /\ U16At(in_bytes, ChunkStart + 4) = ret[1].frame[1].w
     /\ U16At(in_bytes, ChunkStart + 6) = ret[1].frame[1].h) =>
        LET f == ret[1].frame[1]
        IN  \A x \in 0..(f.w - 1), y \in 0..(f.h - 1) :
                Cell(f, x, y) =
                    Grey(U8At(in_bytes, ChunkStart + 8 + y * f.w + x)) \o <<255>>

\* the 20-byte record r with its byte j (from 1) raised by d modulo 256
Altered(r, j, d) == [r EXCEPT ![j] = (@ + d) % 256]

\* C28: object records are preserved.  The object that an objects group of one
\* record appends is the decoding of that record alone: a 20-byte record that
\* differs from it in one byte decodes (LevelVoxelType::new) to another object.
C28_RecordsPreserved ==
    [][(Level /\ module = "level_setup" /\ ObjectsAt(1)) =>
          \A j \in 1..cube_byte_size_3, d \in {1, 128} :
              LevelVoxelType_new(Altered(Slice(in_bytes, offset + 4, cube_byte_size_3), j, d))
                  # out_cubes'[Len(out_cubes')]]_vars

\* the positions of from_bytes at the head of one of its loops
LoopHeads == {"top", "voxel", "camera", "section", "lighting"}

\* C29: from_bytes terminates and its cursor only moves forward.  The offset
\* never decreases and never exceeds the input length (so neither on a
\* successful return); every iteration of the top-level, voxel, camera-node,
\* section and lighting loops consumes at least one byte or aborts the call;
\* and a call that has neither returned nor aborted is at its entry or at the
\* head of one of these loops, where its next step is defined for every state.
\* Hence a call on n bytes makes at most n + 1 loop iterations.
C29_Terminates ==
    /\ [][Level => /\ offset' >= offset
                   /\ pc \in LoopHeads => (pc' = "panic" \/ offset' > offset)
                   /\ pc \in {"done", "panic"} => (pc' = pc /\ offset' = offset)]_vars
    /\ [](Level => offset <= Len(in_bytes))
    /\ []((Level /\ pc \notin {"done", "panic"}) => pc \in {"entry"} \cup LoopHeads)

\* a parse through the three sections that returned with the cursor past the
\* last byte it read and within the input
C29_Witness ==
    /\ Parsed
    /\ pc = "done"
    /\ ret[1].cubes # <<>>
    /\ ret[1].camera_nodes # <<>>
    /\ Len(cmds) = 4
    /\ offset > 0
    /\ offset <= Len(in_bytes)

\* get_cubes_from_reader is about to read a group of records: tag 3 (kind,
\* count, gate kind + 1, count * 20 bytes) or tag 8 (count, gate 9, count * 12
\* bytes)
GroupAt == Level /\ pc = "voxel" /\ CanRead(offset, 1) /\ NextByte \in {3, 8}
GroupSize == IF NextByte = 3 THEN cube_byte_size_3 ELSE cube_byte_size_8
CountAt == IF NextByte = 3 THEN offset + 2 ELSE offset + 1
GroupCount == U8At(in_bytes, CountAt)
GroupGate == IF NextByte = 8 THEN 9 ELSE U8At(in_bytes, offset + 1) + 1
\* the group's gate byte is there and its payload lies within the input
GroupRead ==
    /\ GroupAt
    /\ CanRead(CountAt, 2 + GroupCount * GroupSize)
    /\ NextByte = 3 => U8At(in_bytes, offset + 1) \in {6, 10}
    /\ U8At(in_bytes, CountAt + 1) = GroupGate
\* the group has no gate byte: no payload is read
GroupSkipped ==
    /\ GroupAt
    /\ CanRead(CountAt, 2)
    /\ NextByte = 3 => U8At(in_bytes, offset + 1) \in {6, 10}
    /\ U8At(in_bytes, CountAt + 1) # GroupGate
\* the slices cubes.chunks(cube_byte_size) hands to LevelVoxelType::new
GroupSlices == Chunks(Slice(in_bytes, CountAt + 2, GroupCount * GroupSize), GroupSize)
RecordPanic == "Can not create level cube bytes from given bytes"

\* C30: the record-length panic is unreachable from the parser.  A group with
\* its gate hands to LevelVoxelType::new exactly count slices, each of exactly
\* 20 (tag 3) or 12 (tag 8) bytes, and appends their decodings; a group without
\* its gate hands over none; from_bytes never fails with "Can not create level
\* cube bytes".
C30_RecordLengths ==
    /\ [](Level => err # RecordPanic)
    /\ [][/\ GroupRead =>
                /\ Len(GroupSlices) = GroupCount
                /\ \A k \in 1..Len(GroupSlices) : Len(GroupSlices[k]) = GroupSize
                /\ pc' = "voxel"
                /\ out_cubes' = out_cubes \o [k \in 1..Len(GroupSlices) |->
                                                NewLevelCube(module, GroupSlices[k])]
          /\ GroupSkipped => (pc' = "voxel" /\ out_cubes' = out_cubes)]_vars

\* a group of 255 records, the largest count, has been read: 255 slices
C30_Witness ==
    /\ Parsed
    /\ pc = "done"
    /\ Len(in_bytes) > 28
    /\ U8At(in_bytes, 26) = 3
    /\ U8At(in_bytes, 28) = 255
    /\ Len(ret[1].cubes) = 1
    /\ Len(ret[1].cubes[1].cubes) = 255
====
